---- MODULE Spec2Model ----
(***************************************************************************)
(* The state-management layer of not-another-list-app (natl-frontend):     *)
(* the action vocabulary and constructors, the three slice reducers        *)
(* (login, list, task), the Redux store they are combined into, and the    *)
(* handlers of the Login, Lists and Tasks components that dispatch to it.  *)
(*                                                                         *)
(* JavaScript values are modelled as tagged tuples, so that values of      *)
(* different JavaScript types can be stored in the same field and          *)
(* compared: <<"undefined">>, <<"null">>, <<"string", s>>,                 *)
(* <<"boolean", b>>, <<"array", seq>>, <<"object", [key |-> value]>>.      *)
(***************************************************************************)
EXTENDS Integers, Sequences, FiniteSets, TLC

VARIABLES
  createdBy,    \* how the store was built: "configureStore" or "App.test"
  state,        \* the store's state tree: slice key |-> slice object
  lastAction,   \* the action record of the latest store.dispatch made directly
  outcome,      \* "ok", or "TypeError" when the latest direct dispatch threw
  dispatches,   \* number of direct dispatches made so far
  called,       \* the latest action-constructor call: <<name, arguments>>
  returned,     \* the JavaScript value that call returned
  inputs,       \* the Login view's two input elements: field |-> typed text
  ui,           \* whether the dashboard is mounted, and the component state
                \* of Lists and Tasks: toast, toastTimer, timers, lastError
  calls,        \* the handler invocations waiting for a response
  started,      \* number of handler invocations begun since the initial state
  escaped,      \* the handlers and constructors an exception has left
  focus         \* the component whose inputs and buttons the user works
                \* with; "App" while none of its views is on screen

storeVars == <<createdBy, state, lastAction, outcome, dispatches>>
constructorVars == <<called, returned>>
componentVars == <<inputs, ui, calls, started, escaped, focus>>
vars == <<storeVars, constructorVars, componentVars>>

\* Bound on the number of dispatches explored.
MaxDispatch == 2

(***************************************************************************)
(* JavaScript values                                                       *)
(***************************************************************************)
Undefined == <<"undefined">>
Null == <<"null">>
Str(s) == <<"string", s>>
Bool(b) == <<"boolean", b>>
Arr(s) == <<"array", s>>
Obj(f) == <<"object", f>>

\* The value a throwing evaluation produces instead of a result.
TypeError == <<"throw", "TypeError">>

Num(n) == <<"number", n>>

\* Array.isArray(v)
IsArray(v) == v[1] = "array"

\* ToBoolean(v): undefined, null, "", 0 and false are falsy.
Truthy(v) ==
  CASE v[1] \in {"undefined", "null"} -> FALSE
    [] v[1] = "string" -> v[2] # ""
    [] v[1] = "number" -> v[2] # 0
    [] v[1] = "boolean" -> v[2]
    [] OTHER -> TRUE

\* !v
Not(v) == Bool(~Truthy(v))

\* Reading v.k throws on undefined and null ...
CanRead(v) == v[1] \notin {"undefined", "null"}

\* ... and yields undefined for a key the value does not have.
Get(v, k) ==
  IF v[1] = "object" /\ k \in DOMAIN v[2] THEN v[2][k] ELSE Undefined

\* { ...obj, k: v }
\*   (faulty variant: the spread is forgotten)
SpreadBroken(obj, k, v) == Obj([f \in {k} |-> v])
Spread(obj, k, v) ==
  Obj([f \in (DOMAIN obj[2]) \cup {k} |-> IF f = k THEN v ELSE obj[2][f]])

(***************************************************************************)
(* Action vocabulary (constants/index.js)                                  *)
(***************************************************************************)
\* The exported identifiers, by name.
ConstantNames ==
  {"SET_ACCESS_ID", "SET_USERNAME", "SET_PASSWORD", "LOGIN_SUCCESS",
   "SET_LISTS", "SWITCH_SHOW_ADD_LIST_FORM", "SET_CREATE_LIST_NAME",
   "SET_CREATE_LIST_DESCRIPTION", "SET_TASKS", "SET_TASKS_LIST_NAME",
   "SET_TASKS_LIST_ID", "SWITCH_SHOW_ADD_TASK_FORM", "SET_CREATE_TASK_NAME",
   "SET_CREATE_TASK_DESCRIPTION", "SWITCH_SET_TASK_IS_DONE"}

\* import * as constants: identifier |-> string value
\*   (faulty variant: SET_TASKS given the value of SET_LISTS)
constantsCollide ==
  [n \in ConstantNames |->
     CASE n = "LOGIN_SUCCESS" -> "LOGIN"
       [] n = "SET_TASKS" -> "SET_LISTS"
       [] OTHER -> n]
constants ==
  [n \in ConstantNames |-> IF n = "LOGIN_SUCCESS" THEN "LOGIN" ELSE n]

(***************************************************************************)
(* Slice reducers                                                          *)
(***************************************************************************)
loginInitialState == Obj([accessId |-> Undefined])

\* case LOGIN_SUCCESS: reads payload.accessId, then payload.username.
\*   (faulty variants: the two reads swapped; the password cleared as well)
loginSuccessSwapped(s, payload) ==
  IF CanRead(payload)
    THEN Spread(Spread(s, "accessId", Get(payload, "username")),
                "username", Get(payload, "accessId"))
    ELSE TypeError
loginSuccessClearsPassword(s, payload) ==
  IF CanRead(payload)
    THEN Spread(Spread(Spread(s, "accessId", Get(payload, "accessId")),
                       "username", Get(payload, "username")),
                "password", Undefined)
    ELSE TypeError
reduceLoginSuccess(s, payload) ==
  IF CanRead(payload)
    THEN Spread(Spread(s, "accessId", Get(payload, "accessId")),
                "username", Get(payload, "username"))
    ELSE TypeError

\* (faulty variant: the default case returns initialState)
loginReducerResets(st, action) ==
  LET s == IF st = Undefined THEN loginInitialState ELSE st
      type == action.type
      payload == action.payload
  IN CASE type = constants.SET_ACCESS_ID -> Spread(s, "accessId", payload)
       [] type = constants.SET_USERNAME -> Spread(s, "username", payload)
       [] type = constants.SET_PASSWORD -> Spread(s, "password", payload)
       [] type = constants.LOGIN_SUCCESS -> reduceLoginSuccess(s, payload)
       [] OTHER -> loginInitialState
loginReducer(st, action) ==
  LET s == IF st = Undefined THEN loginInitialState ELSE st
      type == action.type
      payload == action.payload
  IN CASE type = constants.SET_ACCESS_ID -> Spread(s, "accessId", payload)
       [] type = constants.SET_USERNAME -> Spread(s, "username", payload)
       [] type = constants.SET_PASSWORD -> Spread(s, "password", payload)
       [] type = constants.LOGIN_SUCCESS -> reduceLoginSuccess(s, payload)
       [] OTHER -> s

\* (faulty variant: showAddList starts true)
listInitialStateOpen ==
  Obj([list |-> Arr(<<>>), showAddList |-> Bool(TRUE),
       name |-> Str(""), description |-> Str("")])
listInitialState ==
  Obj([list |-> Arr(<<>>), showAddList |-> Bool(FALSE),
       name |-> Str(""), description |-> Str("")])

\* case SET_LISTS: a payload that is not an array collapses to [].
\*   (faulty variant: the payload is stored as it comes)
setListsRaw(s, payload) == Spread(s, "list", payload)
setLists(s, payload) ==
  Spread(s, "list", IF IsArray(payload) THEN payload ELSE Arr(<<>>))

\* (faulty variant of the lists reducer: SWITCH_SHOW_ADD_LIST_FORM flips the
\*  stored flag instead of storing the payload)
listReducerFlips(st, action) ==
  LET s == IF st = Undefined THEN listInitialState ELSE st
      type == action.type
      payload == action.payload
  IN CASE type = constants.SET_LISTS -> setLists(s, payload)
       [] type = constants.SWITCH_SHOW_ADD_LIST_FORM ->
            Spread(s, "showAddList", Not(Get(s, "showAddList")))
       [] type = constants.SET_CREATE_LIST_NAME -> Spread(s, "name", payload)
       [] type = constants.SET_CREATE_LIST_DESCRIPTION ->
            Spread(s, "description", payload)
       [] OTHER -> s
listReducer(st, action) ==
  LET s == IF st = Undefined THEN listInitialState ELSE st
      type == action.type
      payload == action.payload
  IN CASE type = constants.SET_LISTS -> setLists(s, payload)
       [] type = constants.SWITCH_SHOW_ADD_LIST_FORM ->
            Spread(s, "showAddList", payload)
       [] type = constants.SET_CREATE_LIST_NAME -> Spread(s, "name", payload)
       [] type = constants.SET_CREATE_LIST_DESCRIPTION ->
            Spread(s, "description", payload)
       [] OTHER -> s

taskInitialState ==
  Obj([tasks |-> Arr(<<>>), showAddTaskForm |-> Bool(FALSE),
       name |-> Str(""), description |-> Str(""),
       taskListName |-> Str(""), taskListId |-> Str("")])

\* case SET_TASKS: a payload that is not an array collapses to [].
\*   (faulty variant: a non-array payload keeps the previous tasks)
setTasksKeep(s, payload) ==
  Spread(s, "tasks", IF IsArray(payload) THEN payload ELSE Get(s, "tasks"))
setTasks(s, payload) ==
  Spread(s, "tasks", IF IsArray(payload) THEN payload ELSE Arr(<<>>))

taskReducer(st, action) ==
  LET s == IF st = Undefined THEN taskInitialState ELSE st
      type == action.type
      payload == action.payload
  IN CASE type = constants.SET_TASKS -> setTasks(s, payload)
       [] type = constants.SET_TASKS_LIST_NAME ->
            Spread(s, "taskListName", payload)
       [] type = constants.SET_TASKS_LIST_ID ->
            Spread(s, "taskListId", payload)
       [] type = constants.SWITCH_SHOW_ADD_TASK_FORM ->
            Spread(s, "showAddTaskForm", payload)
       [] type = constants.SWITCH_SET_TASK_IS_DONE ->
            Spread(s, "isDone", payload)
       [] type = constants.SET_CREATE_TASK_NAME -> Spread(s, "name", payload)
       [] type = constants.SET_CREATE_TASK_DESCRIPTION ->
            Spread(s, "description", payload)
       [] OTHER -> s

(***************************************************************************)
(* Store composition                                                       *)
(***************************************************************************)
\* The reducer map handed to combineReducers by configureStore.js ...
configureStoreReducers == {"login"}
\* ... and by App.test.js.
appTestReducers == {"login", "lists", "tasks"}

\* The reducer registered under a slice key.
sliceReducer(key, st, action) ==
  CASE key = "login" -> loginReducer(st, action)
    [] key = "lists" -> listReducer(st, action)
    [] key = "tasks" -> taskReducer(st, action)

\* The action createStore dispatches to populate the initial tree.
InitAction == [type |-> "@@redux/INIT", payload |-> Undefined]

\* combineReducers: every slice reducer is run on its own slice; a throw
\* inside any of them propagates out of the root reducer.
combineReducers(keys, tree, action) ==
  LET next == [k \in keys |-> sliceReducer(k, tree[k], action)]
  IN [threw |-> \E k \in keys : next[k] = TypeError, tree |-> next]

\* createStore(rootReducer): the tree after the initial dispatch.
createStore(keys) ==
  combineReducers(keys, [k \in keys |-> Undefined], InitAction).tree

(***************************************************************************)
(* Action constructors (actions/loginAction.js)                            *)
(***************************************************************************)
setAccessId(accessId) == [type |-> constants.SET_ACCESS_ID, payload |-> accessId]

setUsername(username) == [type |-> constants.SET_USERNAME, payload |-> username]

setPassword(password) == [type |-> constants.SET_PASSWORD, payload |-> password]

loginSuccess(username, accessId) ==
  [type |-> constants.LOGIN_SUCCESS,
   payload |-> Obj([username |-> username, accessId |-> accessId])]

\* loginFailed() has an empty body: the call returns undefined.
loginFailed == Undefined

(***************************************************************************)
(* Action constructors of actions/listAction.js and actions/taskAction.js, *)
(* as the components call them and the specification describes them.       *)
(***************************************************************************)
setListsAction(lists) == [type |-> constants.SET_LISTS, payload |-> lists]

\*   (faulty variant: the flag is switched off by a null payload)
switchShowAddListFormNull(currentVal) ==
  [type |-> constants.SWITCH_SHOW_ADD_LIST_FORM,
   payload |-> IF Truthy(currentVal) THEN Null ELSE Bool(TRUE)]
switchShowAddListForm(currentVal) ==
  [type |-> constants.SWITCH_SHOW_ADD_LIST_FORM, payload |-> Not(currentVal)]

setCreateListName(name) == [type |-> constants.SET_CREATE_LIST_NAME, payload |-> name]

setCreateListDescription(description) ==
  [type |-> constants.SET_CREATE_LIST_DESCRIPTION, payload |-> description]

setTasksAction(tasks) == [type |-> constants.SET_TASKS, payload |-> tasks]

setTaskListName(name) == [type |-> constants.SET_TASKS_LIST_NAME, payload |-> name]

setTaskListId(id) == [type |-> constants.SET_TASKS_LIST_ID, payload |-> id]

switchShowAddTaskForm(currentVal) ==
  [type |-> constants.SWITCH_SHOW_ADD_TASK_FORM, payload |-> Not(currentVal)]

switchSetTaskIsDone(isDone) ==
  [type |-> constants.SWITCH_SET_TASK_IS_DONE, payload |-> isDone]

setCreateTaskName(name) == [type |-> constants.SET_CREATE_TASK_NAME, payload |-> name]

setCreateTaskDescription(description) ==
  [type |-> constants.SET_CREATE_TASK_DESCRIPTION, payload |-> description]

\* An action record as the JavaScript object the constructor returns.
ActionObject(a) == Obj([type |-> Str(a.type), payload |-> a.payload])

ConstructorNames ==
  {"setAccessId", "setUsername", "setPassword", "loginSuccess", "loginFailed",
   "setLists", "switchShowAddListForm", "setCreateListName",
   "setCreateListDescription", "setTasks", "setTaskListName", "setTaskListId",
   "switchShowAddTaskForm", "switchSetTaskIsDone", "setCreateTaskName",
   "setCreateTaskDescription"}

\* The value the exported constructor `name` returns for the arguments (x, y).
construct(name, x, y) ==
  CASE name = "setAccessId" -> ActionObject(setAccessId(x))
    [] name = "setUsername" -> ActionObject(setUsername(x))
    [] name = "setPassword" -> ActionObject(setPassword(x))
    [] name = "loginSuccess" -> ActionObject(loginSuccess(x, y))
    [] name = "loginFailed" -> loginFailed
    [] name = "setLists" -> ActionObject(setListsAction(x))
    [] name = "switchShowAddListForm" -> ActionObject(switchShowAddListForm(x))
    [] name = "setCreateListName" -> ActionObject(setCreateListName(x))
    [] name = "setCreateListDescription" -> ActionObject(setCreateListDescription(x))
    [] name = "setTasks" -> ActionObject(setTasksAction(x))
    [] name = "setTaskListName" -> ActionObject(setTaskListName(x))
    [] name = "setTaskListId" -> ActionObject(setTaskListId(x))
    [] name = "switchShowAddTaskForm" -> ActionObject(switchShowAddTaskForm(x))
    [] name = "switchSetTaskIsDone" -> ActionObject(switchSetTaskIsDone(x))
    [] name = "setCreateTaskName" -> ActionObject(setCreateTaskName(x))
    [] name = "setCreateTaskDescription" -> ActionObject(setCreateTaskDescription(x))

(***************************************************************************)
(* Inputs                                                                  *)
(***************************************************************************)
\* Credentials a login can succeed with: <<username, accessId>>.
Logins == {<<"alice", "tok-1">>, <<"bob", "tok-2">>}

LoginPayloads == {loginSuccess(Str(l[1]), Str(l[2])).payload : l \in Logins}

\* Array elements stand for the backend's records, named by their id.
ArrayPayloads == {Arr(<<1, 2>>), Arr(<<2, 1>>)}

\* The objects among them are the login payloads.
NonArrayPayloads == {Undefined, Null, Str("alice"), Bool(TRUE)} \cup LoginPayloads

Payloads == ArrayPayloads \cup NonArrayPayloads

\* Types no reducer lists; "LOGIN_SUCCESS" is an identifier's name, not its value.
UnknownTypes == {"UNKNOWN_ACTION", "LOGIN_SUCCESS"}

Vocabulary == {constants[n] : n \in ConstantNames}

Actions == [type : Vocabulary \cup UnknownTypes, payload : Payloads]

(***************************************************************************)
(* Behaviour                                                               *)
(***************************************************************************)
\* No action constructor has been called yet.
NoCall == <<"none", <<>>>>

ConstructorsIdle ==
  /\ called = NoCall
  /\ returned = Undefined

\* The components as constructed: empty inputs, this.state = {toast: null,
\* lastError: null}, this.toastTimer = null, no request issued.
\* `timers` holds the handles of the timeouts that are scheduled and have
\* neither fired nor been cleared.
NoToast == [toast |-> Null, toastTimer |-> Null, timers |-> {}, lastError |-> Null]

ComponentsInit ==
  /\ inputs = [username |-> "", password |-> ""]
  /\ ui = [mounted |-> FALSE, lists |-> NoToast, tasks |-> NoToast]
  /\ calls = <<>>
  /\ started = 0
  /\ escaped = {}
  /\ focus = "App"

Init ==
  /\ createdBy \in {"configureStore", "App.test"}
  /\ state = createStore(IF createdBy = "configureStore"
                           THEN configureStoreReducers ELSE appTestReducers)
  /\ lastAction = InitAction
  /\ outcome = "ok"
  /\ dispatches = 0
  /\ ConstructorsIdle
  /\ ComponentsInit

\* store.dispatch(action): the root reducer's result is committed unless it threw.
Dispatch(action) ==
  /\ dispatches < MaxDispatch
  /\ dispatches' = dispatches + 1
  /\ lastAction' = action
  /\ LET result == combineReducers(DOMAIN state, state, action)
     IN IF result.threw
          THEN /\ outcome' = "TypeError"
               /\ state' = state
          ELSE /\ outcome' = "ok"
               /\ state' = result.tree
  /\ UNCHANGED <<createdBy, constructorVars, componentVars>>

Next == \E action \in Actions : Dispatch(action)

Spec == Init /\ [][Next]_vars

(***************************************************************************)
(* Calls of the action constructors                                        *)
(***************************************************************************)
\* The exported constructor `name` is called with the arguments (x, y);
\* loginFailed takes none, loginSuccess two, every other constructor one.
Construct(name, x, y) ==
  /\ called' = <<name, CASE name = "loginFailed" -> <<>>
                         [] name = "loginSuccess" -> <<x, y>>
                         [] OTHER -> <<x>>>>
  /\ returned' = construct(name, x, y)
  /\ UNCHANGED <<storeVars, componentVars>>

ConstructorNext ==
  \E name \in ConstructorNames : \E x, y \in Payloads : Construct(name, x, y)

ConstructorSpec == Init /\ [][ConstructorNext]_vars

(***************************************************************************)
(* Components (Login, App, Lists, Tasks)                                   *)
(*                                                                         *)
(* A handler that awaits fetch() is modelled in steps: the step that       *)
(* issues the request puts an invocation into `calls`, and a later step    *)
(* delivers the settled request and runs the handler up to its next await  *)
(* (or to its end, which removes the invocation).  Reading the response    *)
(* (resp.text(), resp.json()) is part of the step that delivers it.        *)
(* createList and createTask await their reload: loadLists / loadTasks     *)
(* installs the collection and returns, and the create resumes in a later  *)
(* microtask (pc "reset") to reset its form; continuations of other        *)
(* handlers whose responses are in may run in between, user events and     *)
(* timers may not.                                                         *)
(*                                                                         *)
(* Dispatches made by the components go through the root reducer like any  *)
(* other; lastAction, outcome and dispatches record only the dispatches    *)
(* made directly on the store (Dispatch).                                  *)
(*                                                                         *)
(* In one behaviour the user works with the inputs and buttons of one      *)
(* component (focus); responses, timers and componentDidMount are not      *)
(* restricted.  This bounds the interleavings explored, as MaxCalls does.  *)
(***************************************************************************)
\* Bound on the number of handler invocations that issue a request.
MaxCalls == 1

\* What a fetch() settles to: a rejection, or a response with resp.ok and the
\* value resp.json() gives (NotJson when the body does not parse).
NotJson == <<"throw", "SyntaxError">>
Rejected == [settled |-> "rejected", ok |-> FALSE, body |-> Undefined]
Resolved(ok, body) == [settled |-> "resolved", ok |-> ok, body |-> body]

LoginBodies ==
  {Obj([access_id |-> Str("tok-1")]), Obj([access_id |-> Null]),
   Obj([errorMsg |-> Str("denied")]), Null}
LoadBodies == {Arr(<<1, 2>>), Arr(<<2>>), Obj([error |-> Str("denied")])}
MutateBodies == {Obj([ok |-> Bool(TRUE)])}

\* What a request may settle to, given the bodies a 2xx and a non-2xx
\* response may carry.
Settled(bodies, errorBodies) ==
  {Rejected} \cup {Resolved(TRUE, body) : body \in bodies \cup {NotJson}}
             \cup {Resolved(FALSE, body) : body \in errorBodies}

LoginSettled == Settled(LoginBodies, LoginBodies)
LoadSettled == Settled(LoadBodies, {Arr(<<1, 2>>)})
MutateSettled == Settled(MutateBodies, MutateBodies)

\* The text typed into the inputs.
Usernames == {"alice"}
Passwords == {"secret"}
TypedNames == {" ", "milk"}
TypedDescriptions == {"note"}

\* String.prototype.trim on the strings that are typed.
Trim(s) == IF s \in {"", " "} THEN "" ELSE s

\* The records of a loaded collection are named by their id: data.id, data.name.
RecordIds == {1, 2}
RecordId(e) == Num(e)
RecordName(e) == Str(IF e = 1 THEN "one" ELSE "two")

\* props.<slice>.<field>, i.e. this.props.slice && this.props.slice.field
Props(slice, field) ==
  IF slice \in DOMAIN state THEN Get(state[slice], field) ELSE Undefined

\* store.dispatch(action) from a component, and several in a row.
reduce(tree, action) ==
  CHOOSE next \in {combineReducers(DOMAIN t, t, action).tree : t \in {tree}} : TRUE

RECURSIVE dispatchAll(_, _)
dispatchAll(tree, actions) ==
  IF actions = <<>> THEN tree
  ELSE CHOOSE next \in {dispatchAll(reduce(t, Head(a)), Tail(a)) :
                          t \in {tree}, a \in {actions}} : TRUE

\* App.render: the Login view unless login.accessId is not undefined.
AppRender ==
  IF Get(state["login"], "accessId") = Undefined THEN "Login" ELSE "wrapper"

\* The dashboard's Lists and Tasks components read props.lists and props.tasks
\* in render, so they are on screen only over a store that has those slices.
DashboardShown ==
  /\ AppRender = "wrapper"
  /\ {"lists", "tasks"} \subseteq DOMAIN state
  /\ ui.mounted

\* A user event or a timer callback is a task of its own: it runs only when
\* no continuation of a handler is queued as a microtask.
Resuming == {i \in 1..Len(calls) : calls[i].pc = "reset"}
TaskTurn == Resuming = {}

\* An invocation ends:
\*   (faulty variant: the handler never returns)
RemoveNever(s, i) == s
Remove(s, i) == SubSeq(s, 1, i - 1) \o SubSeq(s, i + 1, Len(s))

Request(url, param) == <<url, param>>

\* A handler invocation:
\*   (faulty variant: the reload is requested together with the mutation)
InvocationEager(op, pc, arg, requests) ==
  [op |-> op, pc |-> pc, arg |-> arg, resp |-> "none",
   requests |-> IF pc = "mutate"
                  THEN requests \o <<Request("/list/list", Undefined)>>
                  ELSE requests]

\* A handler invocation that has issued `requests` and waits for the last of
\* them; `resp` is what its local `const resp` holds of the mutating request.
Invocation(op, pc, arg, requests) ==
  [op |-> op, pc |-> pc, arg |-> arg, requests |-> requests, resp |-> "none"]

Start(invocation) ==
  /\ started < MaxCalls
  /\ started' = started + 1
  /\ calls' = Append(calls, invocation)

Toast(message, type) == Obj([message |-> Str(message), type |-> Str(type)])

\* setTimeout returns a handle no earlier call returned; this.toastTimer keeps
\* the latest one, so the next handle is the one after it.
setTimeout(cs) == Num(IF cs.toastTimer = Null THEN 1 ELSE cs.toastTimer[2] + 1)
clearTimeout(timers, handle) == timers \ {handle}

\* showToast(message, type):
\*   (faulty variant: the earlier timeout is left scheduled)
showToastKeepsTimer(cs, message, type) ==
  [cs EXCEPT !.toast = Toast(message, type),
             !.timers = @ \cup {setTimeout(cs)},
             !.toastTimer = setTimeout(cs)]
\*   (faulty variant: the removal is never scheduled)
showToastUnscheduled(cs, message, type) ==
  LET cleared == IF Truthy(cs.toastTimer)
                   THEN clearTimeout(cs.timers, cs.toastTimer)
                   ELSE cs.timers
  IN [cs EXCEPT !.toast = Toast(message, type),
                !.timers = cleared,
                !.toastTimer = setTimeout(cs)]

\* showToast(message, type): clears the timeout this.toastTimer names, shows
\* the toast and schedules its removal.
showToast(cs, message, type) ==
  LET cleared == IF Truthy(cs.toastTimer)
                   THEN clearTimeout(cs.timers, cs.toastTimer)
                   ELSE cs.timers
  IN [cs EXCEPT !.toast = Toast(message, type),
                !.timers = cleared \cup {setTimeout(cs)},
                !.toastTimer = setTimeout(cs)]
setLastError(cs, value) == [cs EXCEPT !.lastError = value]

\* fetch rejected, or resp.json() rejected on an ok response: control is in catch.
InCatch(r) == r.settled = "rejected" \/ (r.ok /\ r.body = NotJson)

(***************************************************************************)
(* Login component (Login.js): the handlers render() wires to the two      *)
(* inputs and the Submit button, and register(), which no control calls.   *)
(* They run on an instance that exists (focus = "Login"); rendering App    *)
(* does not produce one, see App_renderLogin, so no specification below    *)
(* takes these steps.                                                      *)
(***************************************************************************)
Login_onChangeUsername(v) ==
  /\ focus = "Login"
  /\ AppRender = "Login"
  /\ inputs' = [inputs EXCEPT !.username = v]
  /\ state' = reduce(state, setUsername(Str(v)))
  /\ UNCHANGED <<createdBy, lastAction, outcome, dispatches, constructorVars,
                 ui, calls, started, escaped, focus>>

\* The password input's onChange calls props.setUsername.
Login_onChangePassword(v) ==
  /\ focus = "Login"
  /\ AppRender = "Login"
  /\ inputs' = [inputs EXCEPT !.password = v]
  /\ state' = reduce(state, setUsername(Str(v)))
  /\ UNCHANGED <<createdBy, lastAction, outcome, dispatches, constructorVars,
                 ui, calls, started, escaped, focus>>

\* login() up to its await fetch(/user/login).
Login_login ==
  /\ focus = "Login"
  /\ AppRender = "Login"
  /\ Start(Invocation("login", "mutate", <<>>,
       <<Request("/user/login",
                 Obj([username |-> Props("login", "username"),
                      password |-> Props("login", "password")]))>>))
  /\ UNCHANGED <<storeVars, constructorVars, inputs, ui, escaped, focus>>

\* login() from the settled fetch to its end.  There is no try/catch and no
\* test of resp.ok: a rejection, an unparsable body or a null body propagates
\* out of the handler; otherwise body.access_id !== undefined decides.
Login_loginSettles(i, r) ==
  /\ i \in 1..Len(calls)
  /\ calls[i].op = "login"
  /\ calls' = Remove(calls, i)
  /\ IF r.settled = "rejected" \/ r.body = NotJson \/ ~CanRead(r.body)
       THEN /\ escaped' = escaped \cup {"login"}
            /\ state' = state
       ELSE /\ escaped' = escaped
            /\ state' =
                 IF Get(r.body, "access_id") # Undefined
                   THEN reduce(state, loginSuccess(Props("login", "username"),
                                                   Get(r.body, "access_id")))
                   ELSE state
  /\ UNCHANGED <<createdBy, lastAction, outcome, dispatches, constructorVars,
                 inputs, ui, started, focus>>

\* register() up to its await fetch(/user/register); no control of render()
\* calls it, so it does not depend on what is on screen.
Login_register ==
  /\ focus = "Login"
  /\ Start(Invocation("register", "mutate", <<>>,
       <<Request("/user/register",
                 Obj([username |-> Props("login", "username"),
                      password |-> Props("login", "password")]))>>))
  /\ UNCHANGED <<storeVars, constructorVars, inputs, ui, escaped, focus>>

\* register() from the settled fetch to its end: the same steps as login().
Login_registerSettles(i, r) ==
  /\ i \in 1..Len(calls)
  /\ calls[i].op = "register"
  /\ calls' = Remove(calls, i)
  /\ IF r.settled = "rejected" \/ r.body = NotJson \/ ~CanRead(r.body)
       THEN /\ escaped' = escaped \cup {"register"}
            /\ state' = state
       ELSE /\ escaped' = escaped
            /\ state' =
                 IF Get(r.body, "access_id") # Undefined
                   THEN reduce(state, loginSuccess(Props("login", "username"),
                                                   Get(r.body, "access_id")))
                   ELSE state
  /\ UNCHANGED <<createdBy, lastAction, outcome, dispatches, constructorVars,
                 inputs, ui, started, focus>>

\* Function.prototype.bind gives a function; a call of a value that is not a
\* function throws.
Fn(name) == <<"function", name>>
bind(f) == Fn("bound " \o f[2])
CallOf(f) == IF f[1] = "function" THEN Undefined ELSE TypeError

\* new LoginComponent(props): this.login = this.login.bind(this), then
\* this.register = this.login.register(this), a call of the property
\* `register` of the bound function.
LoginComponent ==
  LET login == bind(Fn("login"))
      register == CallOf(Get(login, "register"))
  IN IF register = TypeError THEN TypeError
     ELSE Obj([login |-> login, register |-> register])

\* App.render returns <Login />: React constructs the component; when the
\* constructor throws nothing is mounted and the error leaves the render,
\* otherwise the user has the Login view to work with.
App_renderLogin ==
  /\ focus = "App"
  /\ AppRender = "Login"
  /\ "LoginComponent" \notin escaped
  /\ IF LoginComponent = TypeError
       THEN /\ escaped' = escaped \cup {"LoginComponent"}
            /\ focus' = focus
       ELSE /\ escaped' = escaped
            /\ focus' = "Login"
  /\ UNCHANGED <<storeVars, constructorVars, inputs, ui, calls, started>>

(***************************************************************************)
(* Dashboard: Lists and Tasks are mounted once the wrapper is rendered     *)
(***************************************************************************)
\* ListsComponent.componentDidMount: loadLists() up to its await fetch.
Lists_componentDidMount ==
  /\ AppRender = "wrapper"
  /\ {"lists", "tasks"} \subseteq DOMAIN state
  /\ ~ui.mounted
  /\ ui' = [ui EXCEPT !.mounted = TRUE]
  /\ Start(Invocation("loadLists", "load", <<>>,
                      <<Request("/list/list", Undefined)>>))
  /\ UNCHANGED <<storeVars, constructorVars, inputs, escaped, focus>>

(***************************************************************************)
(* Lists component (Lists.js)                                              *)
(***************************************************************************)
Lists_openAddListForm ==
  /\ focus = "Lists"
  /\ DashboardShown
  /\ TaskTurn
  /\ state' = dispatchAll(state,
       <<setCreateListName(Str("")), setCreateListDescription(Str("")),
         switchShowAddListForm(Props("lists", "showAddList"))>>)
  /\ UNCHANGED <<createdBy, lastAction, outcome, dispatches, constructorVars,
                 componentVars>>

Lists_onChangeName(v) ==
  /\ focus = "Lists"
  /\ DashboardShown
  /\ TaskTurn
  /\ Truthy(Props("lists", "showAddList"))
  /\ state' = reduce(state, setCreateListName(Str(v)))
  /\ UNCHANGED <<createdBy, lastAction, outcome, dispatches, constructorVars,
                 componentVars>>

Lists_onChangeDescription(v) ==
  /\ focus = "Lists"
  /\ DashboardShown
  /\ TaskTurn
  /\ Truthy(Props("lists", "showAddList"))
  /\ state' = reduce(state, setCreateListDescription(Str(v)))
  /\ UNCHANGED <<createdBy, lastAction, outcome, dispatches, constructorVars,
                 componentVars>>

\* The X button of the error banner, which the compose view renders.
Lists_clearError ==
  /\ focus = "Lists"
  /\ DashboardShown
  /\ TaskTurn
  /\ Truthy(Props("lists", "showAddList"))
  /\ Truthy(ui.lists.lastError)
  /\ ui' = [ui EXCEPT !.lists = setLastError(@, Null)]
  /\ UNCHANGED <<storeVars, constructorVars, inputs, calls, started, escaped, focus>>

\* The callback of showToast's setTimeout.
Lists_toastTimeout ==
  \E handle \in ui.lists.timers :
    /\ TaskTurn
    /\ ui' = [ui EXCEPT !.lists = [@ EXCEPT !.toast = Null,
                                          !.timers = @ \ {handle}]]
    /\ UNCHANGED <<storeVars, constructorVars, inputs, calls, started, escaped,
                   focus>>

\* The message of the first precondition of createList that fails, or null.
createListRejects(accessId, name) ==
  IF ~Truthy(accessId) THEN Str("You must be logged in to create a list.")
  ELSE IF ~Truthy(name) \/ Trim(name[2]) = "" THEN Str("List name is required.")
  ELSE Null

\* createList() up to its first return or its await fetch(/list/create).
Lists_createList ==
  /\ focus = "Lists"
  /\ DashboardShown
  /\ TaskTurn
  /\ Truthy(Props("lists", "showAddList"))
  /\ LET rejects == createListRejects(Props("login", "accessId"),
                                      Props("lists", "name"))
     IN /\ ui' = [ui EXCEPT !.lists = setLastError(@, rejects)]
        /\ IF rejects # Null
             THEN UNCHANGED <<calls, started>>
             ELSE Start(Invocation("createList", "mutate", <<>>,
                    <<Request("/list/create",
                              Obj([name |-> Props("lists", "name"),
                                   description |-> Props("lists", "description")]))>>))
  /\ UNCHANGED <<storeVars, constructorVars, inputs, escaped, focus>>

\* The handler from a settled create/delete/toggle request to the reload:
\*   (faulty variant: no reload after a successful request)
afterMutationNoReload(cs, r, failed, succeeded, caught) ==
  IF InCatch(r)
    THEN [cs |-> IF caught = Null THEN cs ELSE setLastError(cs, caught),
          reloads |-> FALSE]
  ELSE IF ~r.ok
    THEN [cs |-> setLastError(showToast(cs, failed, "error"), Str(failed)),
          reloads |-> TRUE]
  ELSE [cs |-> setLastError(showToast(cs, succeeded, "success"), Null),
        reloads |-> FALSE]

\* The handler from a settled create/delete/toggle request to the reload:
\* the component state it leaves and whether it goes on to reload.
\* `caught` is the lastError the catch block sets (null: it only logs).
afterMutation(cs, r, failed, succeeded, caught) ==
  IF InCatch(r)
    THEN [cs |-> IF caught = Null THEN cs ELSE setLastError(cs, caught),
          reloads |-> FALSE]
  ELSE IF ~r.ok
    THEN [cs |-> setLastError(showToast(cs, failed, "error"), Str(failed)),
          reloads |-> TRUE]
  ELSE [cs |-> setLastError(showToast(cs, succeeded, "success"), Null),
        reloads |-> TRUE]

\* loadLists() from its settled fetch to its end.
\*   (faulty variant: a failed load also clears the session token)
afterLoadListsLogsOut(cs, tree, r) ==
  IF InCatch(r) \/ ~r.ok
    THEN [cs |-> setLastError(cs, Str("Load lists failed")),
          tree |-> dispatchAll(tree, <<setListsAction(Arr(<<>>)),
                                       setAccessId(Undefined)>>)]
  ELSE [cs |-> cs,
        tree |-> reduce(tree, setListsAction(IF IsArray(r.body) THEN r.body
                                             ELSE Arr(<<>>)))]
\*   (faulty variant: a 2xx body that is not an array is reported as an error)
afterLoadListsRejectsShape(cs, tree, r) ==
  IF InCatch(r)
    THEN [cs |-> setLastError(cs, Str("Load lists exception")),
          tree |-> reduce(tree, setListsAction(Arr(<<>>)))]
  ELSE IF ~r.ok \/ ~IsArray(r.body)
    THEN [cs |-> setLastError(cs, Str("Load lists failed")),
          tree |-> reduce(tree, setListsAction(Arr(<<>>)))]
  ELSE [cs |-> cs, tree |-> reduce(tree, setListsAction(r.body))]
afterLoadLists(cs, tree, r) ==
  IF InCatch(r)
    THEN [cs |-> setLastError(cs, Str("Load lists exception")),
          tree |-> reduce(tree, setListsAction(Arr(<<>>)))]
  ELSE IF ~r.ok
    THEN [cs |-> setLastError(cs, Str("Load lists failed")),
          tree |-> reduce(tree, setListsAction(Arr(<<>>)))]
  ELSE [cs |-> cs,
        tree |-> reduce(tree, setListsAction(IF IsArray(r.body) THEN r.body
                                             ELSE Arr(<<>>)))]

\* A step of a Lists handler from its settled create or delete request on:
\*   (faulty variant: a request answered with a non-2xx status is sent again)
Lists_mutationRetries(i, r, failed, succeeded, caught) ==
  \E after \in {afterMutation(ui.lists, r, failed, succeeded, caught)} :
     /\ ui' = [ui EXCEPT !.lists = after.cs]
     /\ calls' =
          IF after.reloads /\ ~r.ok
            THEN [calls EXCEPT ![i] =
                    [@ EXCEPT !.requests = Append(@, @[1])]]
          ELSE IF after.reloads
            THEN [calls EXCEPT ![i] =
                    [@ EXCEPT !.pc = "load",
                              !.resp = "ok",
                              !.requests = Append(@, Request("/list/list", Undefined))]]
            ELSE Remove(calls, i)
     /\ UNCHANGED <<storeVars, constructorVars, inputs, started, escaped, focus>>

\* A step of a Lists handler from its settled create or delete request to
\* its await this.loadLists(), or to the end of its catch block.
Lists_mutationSettles(i, r, failed, succeeded, caught) ==
  \E after \in {afterMutation(ui.lists, r, failed, succeeded, caught)} :
     /\ ui' = [ui EXCEPT !.lists = after.cs]
     /\ calls' =
          IF after.reloads
            THEN [calls EXCEPT ![i] =
                    [@ EXCEPT !.pc = "load",
                              !.resp = IF r.ok THEN "ok" ELSE "notOk",
                              !.requests = Append(@, Request("/list/list", Undefined))]]
            ELSE Remove(calls, i)
     /\ UNCHANGED <<storeVars, constructorVars, inputs, started, escaped, focus>>

Lists_createListSettles(i, r) ==
  /\ i \in 1..Len(calls)
  /\ calls[i].op = "createList"
  /\ calls[i].pc = "mutate"
  /\ Lists_mutationSettles(i, r, "Create failed", "List created",
                           Str("Create exception"))

\* The rows the table renders: (props.lists.list || []).map(...)
ListRows == {Props("lists", "list")[2][n] : n \in DOMAIN Props("lists", "list")[2]}

Lists_deleteList(id) ==
  /\ focus = "Lists"
  /\ DashboardShown
  /\ TaskTurn
  /\ id \in ListRows
  /\ Start(Invocation("deleteList", "mutate", <<RecordId(id)>>,
                      <<Request("/list/delete", RecordId(id))>>))
  /\ UNCHANGED <<storeVars, constructorVars, inputs, ui, escaped, focus>>

Lists_deleteListSettles(i, r) ==
  /\ i \in 1..Len(calls)
  /\ calls[i].op = "deleteList"
  /\ calls[i].pc = "mutate"
  /\ Lists_mutationSettles(i, r, "Delete failed", "List deleted",
                           Str("Delete exception"))

\* loadLists() settles:
\*   (faulty variant: a response is dropped while a load requested by a later
\*   invocation is still awaited)
Lists_loadListsSettlesLatestOnly(i, r) ==
  /\ i \in 1..Len(calls)
  /\ calls[i].op \in {"loadLists", "createList", "deleteList"}
  /\ calls[i].pc = "load"
  /\ LET superseded == \E j \in (i + 1)..Len(calls) :
                          calls[j].op \in {"loadLists", "createList", "deleteList"}
         after == IF superseded THEN [cs |-> ui.lists, tree |-> state]
                  ELSE afterLoadLists(ui.lists, state, r)
     IN /\ ui' = [ui EXCEPT !.lists = after.cs]
        /\ state' = after.tree
  /\ calls' = IF calls[i].op = "createList"
                THEN [calls EXCEPT ![i].pc = "reset"]
                ELSE Remove(calls, i)
  /\ UNCHANGED <<createdBy, lastAction, outcome, dispatches, constructorVars,
                 inputs, started, escaped, focus>>

\* loadLists() settles: called by componentDidMount, deleteList or createList.
\* For componentDidMount and deleteList nothing follows it; createList, which
\* awaits it, is resumed in a later microtask.
Lists_loadListsSettles(i, r) ==
  /\ i \in 1..Len(calls)
  /\ calls[i].op \in {"loadLists", "createList", "deleteList"}
  /\ calls[i].pc = "load"
  /\ \E after \in {afterLoadLists(ui.lists, state, r)} :
        /\ ui' = [ui EXCEPT !.lists = after.cs]
        /\ state' = after.tree
  /\ calls' = IF calls[i].op = "createList"
                THEN [calls EXCEPT ![i].pc = "reset"]
                ELSE Remove(calls, i)
  /\ UNCHANGED <<createdBy, lastAction, outcome, dispatches, constructorVars,
                 inputs, started, escaped, focus>>

\* createList after `await this.loadLists()`: the form is reset.
Lists_createListResumes(i) ==
  /\ i \in 1..Len(calls)
  /\ calls[i].op = "createList"
  /\ calls[i].pc = "reset"
  /\ state' = dispatchAll(state,
       <<setCreateListName(Str("")), setCreateListDescription(Str("")),
         switchShowAddListForm(Props("lists", "showAddList"))>>)
  /\ calls' = Remove(calls, i)
  /\ UNCHANGED <<createdBy, lastAction, outcome, dispatches, constructorVars,
                 inputs, ui, started, escaped, focus>>

\* Lists' loadTasks(listName, id), the View Tasks button of a row.
Lists_loadTasks(id) ==
  /\ focus = "Lists"
  /\ DashboardShown
  /\ TaskTurn
  /\ id \in ListRows
  /\ Start(Invocation("Lists.loadTasks", "load", <<RecordName(id), RecordId(id)>>,
                      <<Request("/task/list", RecordId(id))>>))
  /\ UNCHANGED <<storeVars, constructorVars, inputs, ui, escaped, focus>>

Lists_loadTasksSettles(i, r) ==
  /\ i \in 1..Len(calls)
  /\ calls[i].op = "Lists.loadTasks"
  /\ calls' = Remove(calls, i)
  /\ IF InCatch(r)
       THEN /\ ui' = [ui EXCEPT !.lists = setLastError(@, Str("Load tasks exception"))]
            /\ state' = reduce(state, setTasksAction(Arr(<<>>)))
     ELSE IF ~r.ok
       THEN /\ ui' = [ui EXCEPT !.lists = setLastError(@, Str("Load tasks failed"))]
            /\ state' = reduce(state, setTasksAction(Arr(<<>>)))
     ELSE /\ ui' = ui
          /\ state' = dispatchAll(state,
               <<setTasksAction(IF IsArray(r.body) THEN r.body ELSE Arr(<<>>)),
                 setTaskListName(calls[i].arg[1]), setTaskListId(calls[i].arg[2])>>)
  /\ UNCHANGED <<createdBy, lastAction, outcome, dispatches, constructorVars,
                 inputs, started, escaped, focus>>

(***************************************************************************)
(* Tasks component (Tasks.js)                                              *)
(***************************************************************************)
Tasks_openAddTaskForm ==
  /\ focus = "Tasks"
  /\ DashboardShown
  /\ TaskTurn
  /\ state' = dispatchAll(state,
       <<setCreateTaskName(Str("")), setCreateTaskDescription(Str("")),
         switchShowAddTaskForm(Props("tasks", "showAddTaskForm"))>>)
  /\ UNCHANGED <<createdBy, lastAction, outcome, dispatches, constructorVars,
                 componentVars>>

Tasks_onChangeName(v) ==
  /\ focus = "Tasks"
  /\ DashboardShown
  /\ TaskTurn
  /\ Truthy(Props("tasks", "showAddTaskForm"))
  /\ state' = reduce(state, setCreateTaskName(Str(v)))
  /\ UNCHANGED <<createdBy, lastAction, outcome, dispatches, constructorVars,
                 componentVars>>

Tasks_onChangeDescription(v) ==
  /\ focus = "Tasks"
  /\ DashboardShown
  /\ TaskTurn
  /\ Truthy(Props("tasks", "showAddTaskForm"))
  /\ state' = reduce(state, setCreateTaskDescription(Str(v)))
  /\ UNCHANGED <<createdBy, lastAction, outcome, dispatches, constructorVars,
                 componentVars>>

Tasks_clearError ==
  /\ focus = "Tasks"
  /\ DashboardShown
  /\ TaskTurn
  /\ Truthy(Props("tasks", "showAddTaskForm"))
  /\ Truthy(ui.tasks.lastError)
  /\ ui' = [ui EXCEPT !.tasks = setLastError(@, Null)]
  /\ UNCHANGED <<storeVars, constructorVars, inputs, calls, started, escaped, focus>>

Tasks_toastTimeout ==
  \E handle \in ui.tasks.timers :
    /\ TaskTurn
    /\ ui' = [ui EXCEPT !.tasks = [@ EXCEPT !.toast = Null,
                                          !.timers = @ \ {handle}]]
    /\ UNCHANGED <<storeVars, constructorVars, inputs, calls, started, escaped,
                   focus>>

\* The message of the first precondition of createTask that fails, or null.
\*   (faulty variant: the list id is tested before the session token)
createTaskRejectsListFirst(accessId, listId, name) ==
  IF ~Truthy(listId) THEN Str("Please select a list before adding a task.")
  ELSE IF ~Truthy(accessId) THEN Str("You must be logged in to create a task.")
  ELSE IF ~Truthy(name) \/ Trim(name[2]) = "" THEN Str("Task name is required.")
  ELSE Null
createTaskRejects(accessId, listId, name) ==
  IF ~Truthy(accessId) THEN Str("You must be logged in to create a task.")
  ELSE IF ~Truthy(listId) THEN Str("Please select a list before adding a task.")
  ELSE IF ~Truthy(name) \/ Trim(name[2]) = "" THEN Str("Task name is required.")
  ELSE Null

\* createTask() up to its first return or its await fetch(/task/create).
Tasks_createTask ==
  /\ focus = "Tasks"
  /\ DashboardShown
  /\ TaskTurn
  /\ Truthy(Props("tasks", "showAddTaskForm"))
  /\ LET rejects == createTaskRejects(Props("login", "accessId"),
                                      Props("tasks", "taskListId"),
                                      Props("tasks", "name"))
     IN /\ ui' = [ui EXCEPT !.tasks = setLastError(@, rejects)]
        /\ IF rejects # Null
             THEN UNCHANGED <<calls, started>>
             ELSE Start(Invocation("createTask", "mutate", <<>>,
                    <<Request("/task/create",
                              Obj([list_id |-> Props("tasks", "taskListId"),
                                   name |-> Props("tasks", "name"),
                                   description |-> Props("tasks", "description")]))>>))
  /\ UNCHANGED <<storeVars, constructorVars, inputs, escaped, focus>>

\* A step of a Tasks handler from its settled create, delete or toggle request
\* to the fetch of this.loadTasks(props.tasks.taskListId), or to the end of
\* its catch block.
Tasks_mutationSettles(i, r, failed, succeeded, caught) ==
  \E after \in {afterMutation(ui.tasks, r, failed, succeeded, caught)} :
     /\ ui' = [ui EXCEPT !.tasks = after.cs]
     /\ calls' =
          IF after.reloads
            THEN [calls EXCEPT ![i] =
                    [@ EXCEPT !.pc = "load",
                              !.resp = IF r.ok THEN "ok" ELSE "notOk",
                              !.requests = Append(@, Request("/task/list",
                                                   Props("tasks", "taskListId")))]]
            ELSE Remove(calls, i)
     /\ UNCHANGED <<storeVars, constructorVars, inputs, started, escaped, focus>>

Tasks_createTaskSettles(i, r) ==
  /\ i \in 1..Len(calls)
  /\ calls[i].op = "createTask"
  /\ calls[i].pc = "mutate"
  /\ Tasks_mutationSettles(i, r, "Create failed", "Task created",
                           Str("Create exception"))

\* The rows the table renders: (props.tasks.tasks || []).map(...)
TaskRows == {Props("tasks", "tasks")[2][n] : n \in DOMAIN Props("tasks", "tasks")[2]}

Tasks_deleteTask(id) ==
  /\ focus = "Tasks"
  /\ DashboardShown
  /\ TaskTurn
  /\ id \in TaskRows
  /\ Start(Invocation("deleteTask", "mutate", <<RecordId(id)>>,
                      <<Request("/task/delete", RecordId(id))>>))
  /\ UNCHANGED <<storeVars, constructorVars, inputs, ui, escaped, focus>>

\* deleteTask's catch block only logs to the console.
Tasks_deleteTaskSettles(i, r) ==
  /\ i \in 1..Len(calls)
  /\ calls[i].op = "deleteTask"
  /\ calls[i].pc = "mutate"
  /\ Tasks_mutationSettles(i, r, "Delete failed", "Task deleted", Null)

Tasks_switchTaskIsDone(id) ==
  /\ focus = "Tasks"
  /\ DashboardShown
  /\ TaskTurn
  /\ id \in TaskRows
  /\ Start(Invocation("switchTaskIsDone", "mutate", <<RecordId(id)>>,
                      <<Request("/task/isdone", RecordId(id))>>))
  /\ UNCHANGED <<storeVars, constructorVars, inputs, ui, escaped, focus>>

\* switchTaskIsDone's catch block only logs to the console; its loadTasks is
\* started without await, which ends the handler.
Tasks_switchTaskIsDoneSettles(i, r) ==
  /\ i \in 1..Len(calls)
  /\ calls[i].op = "switchTaskIsDone"
  /\ calls[i].pc = "mutate"
  /\ Tasks_mutationSettles(i, r, "Update failed", "Task updated", Null)

\*   (faulty variant: a failed load keeps the tasks that were on screen)
afterLoadTasksKeeps(cs, tree, r) ==
  IF InCatch(r)
    THEN [cs |-> setLastError(cs, Str("Load tasks exception")), tree |-> tree]
  ELSE IF ~r.ok
    THEN [cs |-> setLastError(cs, Str("Load tasks failed")), tree |-> tree]
  ELSE [cs |-> cs,
        tree |-> reduce(tree, setTasksAction(IF IsArray(r.body) THEN r.body
                                             ELSE Arr(<<>>)))]
\* Tasks' loadTasks(id) from its settled fetch to its end.
afterLoadTasks(cs, tree, r) ==
  IF InCatch(r)
    THEN [cs |-> setLastError(cs, Str("Load tasks exception")),
          tree |-> reduce(tree, setTasksAction(Arr(<<>>)))]
  ELSE IF ~r.ok
    THEN [cs |-> setLastError(cs, Str("Load tasks failed")),
          tree |-> reduce(tree, setTasksAction(Arr(<<>>)))]
  ELSE [cs |-> cs,
        tree |-> reduce(tree, setTasksAction(IF IsArray(r.body) THEN r.body
                                             ELSE Arr(<<>>)))]

\* loadTasks() settles: called by createTask, deleteTask or switchTaskIsDone.
\* For deleteTask and switchTaskIsDone nothing follows it; createTask, which
\* awaits it, is resumed in a later microtask.
Tasks_loadTasksSettles(i, r) ==
  /\ i \in 1..Len(calls)
  /\ calls[i].op \in {"createTask", "deleteTask", "switchTaskIsDone"}
  /\ calls[i].pc = "load"
  /\ \E after \in {afterLoadTasks(ui.tasks, state, r)} :
        /\ ui' = [ui EXCEPT !.tasks = after.cs]
        /\ state' = after.tree
  /\ calls' = IF calls[i].op = "createTask"
                THEN [calls EXCEPT ![i].pc = "reset"]
                ELSE Remove(calls, i)
  /\ UNCHANGED <<createdBy, lastAction, outcome, dispatches, constructorVars,
                 inputs, started, escaped, focus>>

\* createTask after `await this.loadTasks(...)`: the form is reset.
Tasks_createTaskResumes(i) ==
  /\ i \in 1..Len(calls)
  /\ calls[i].op = "createTask"
  /\ calls[i].pc = "reset"
  /\ state' = dispatchAll(state,
       <<setCreateTaskName(Str("")), setCreateTaskDescription(Str("")),
         switchShowAddTaskForm(Props("tasks", "showAddTaskForm"))>>)
  /\ calls' = Remove(calls, i)
  /\ UNCHANGED <<createdBy, lastAction, outcome, dispatches, constructorVars,
                 inputs, ui, started, escaped, focus>>

(***************************************************************************)
(* What the two components put on screen                                   *)
(***************************************************************************)
\* render() of a component with component state cs and compose-mode flag
\* `compose`: the compose view shows the toast, the error banner with its X
\* button, the table and the form; the browse view shows the table alone.
render(cs, compose) ==
  IF Truthy(compose)
    THEN {"table", "form"}
           \cup (IF Truthy(cs.toast) THEN {"toast"} ELSE {})
           \cup (IF Truthy(cs.lastError) THEN {"banner"} ELSE {})
    ELSE {"table"}

Lists_render == render(ui.lists, Props("lists", "showAddList"))
Tasks_render == render(ui.tasks, Props("tasks", "showAddTaskForm"))

(***************************************************************************)
(* The application: components over the store                              *)
(***************************************************************************)
\* The state App.test.js preloads to render the dashboard.
preloadedState ==
  [login |-> Obj([accessId |-> Str("test-123"), username |-> Str("testuser")]),
   lists |-> createStore(appTestReducers)["lists"],
   tasks |-> createStore(appTestReducers)["tasks"]]

\* The store and the components once the dashboard is mounted and the loads
\* that fill it have settled: over the preloaded login slice, or over the
\* login slice a LOGIN_SUCCESS with access_id null leaves (a token that is
\* defined but falsy), componentDidMount's loadLists has installed the lists
\* 1 and 2; View Tasks on list 1 may have installed its tasks.
loggedIn ==
  {preloadedState["login"],
   reduce(createStore(appTestReducers), loginSuccess(Undefined, Null))["login"]}

dashboardStates ==
  {dispatchAll([preloadedState EXCEPT !["login"] = login],
               <<setListsAction(Arr(<<1, 2>>))>> \o viewed) :
     login \in loggedIn,
     viewed \in {<<>>, <<setTasksAction(Arr(<<1, 2>>)),
                         setTaskListName(RecordName(1)),
                         setTaskListId(RecordId(1))>>}}

AppInit ==
  /\ createdBy \in {"configureStore", "App.test"}
  /\ lastAction = InitAction
  /\ outcome = "ok"
  /\ dispatches = 0
  /\ ConstructorsIdle
  /\ inputs = [username |-> "", password |-> ""]
  /\ calls = <<>>
  /\ started = 0
  /\ escaped = {}
  /\ \/ /\ state = createStore(IF createdBy = "configureStore"
                                 THEN configureStoreReducers ELSE appTestReducers)
        /\ ui = [mounted |-> FALSE, lists |-> NoToast, tasks |-> NoToast]
        /\ focus = "App"
     \/ /\ createdBy = "App.test"
        /\ state = preloadedState
        /\ ui = [mounted |-> FALSE, lists |-> NoToast, tasks |-> NoToast]
        /\ focus \in {"Lists", "Tasks"}
     \/ /\ createdBy = "App.test"
        /\ state \in dashboardStates
        /\ ui = [mounted |-> TRUE, lists |-> NoToast, tasks |-> NoToast]
        /\ focus \in {"Lists", "Tasks"}

\* Over a store without a token App renders the Login view, whose
\* construction fails; over a store with one the dashboard's handlers run.
AppNext ==
  \/ App_renderLogin
  \/ Lists_componentDidMount
  \/ Lists_openAddListForm
  \/ \E v \in TypedNames : Lists_onChangeName(v)
  \/ \E v \in TypedDescriptions : Lists_onChangeDescription(v)
  \/ Lists_clearError
  \/ Lists_toastTimeout
  \/ Lists_createList
  \/ \E i \in 1..MaxCalls : \E r \in MutateSettled : Lists_createListSettles(i, r)
  \/ \E id \in RecordIds : Lists_deleteList(id)
  \/ \E i \in 1..MaxCalls : \E r \in MutateSettled : Lists_deleteListSettles(i, r)
  \/ \E i \in 1..MaxCalls : \E r \in LoadSettled : Lists_loadListsSettles(i, r)
  \/ \E i \in 1..MaxCalls : Lists_createListResumes(i)
  \/ \E id \in RecordIds : Lists_loadTasks(id)
  \/ \E i \in 1..MaxCalls : \E r \in LoadSettled : Lists_loadTasksSettles(i, r)
  \/ Tasks_openAddTaskForm
  \/ \E v \in TypedNames : Tasks_onChangeName(v)
  \/ \E v \in TypedDescriptions : Tasks_onChangeDescription(v)
  \/ Tasks_clearError
  \/ Tasks_toastTimeout
  \/ Tasks_createTask
  \/ \E i \in 1..MaxCalls : \E r \in MutateSettled : Tasks_createTaskSettles(i, r)
  \/ \E id \in RecordIds : Tasks_deleteTask(id)
  \/ \E i \in 1..MaxCalls : \E r \in MutateSettled : Tasks_deleteTaskSettles(i, r)
  \/ \E id \in RecordIds : Tasks_switchTaskIsDone(id)
  \/ \E i \in 1..MaxCalls : \E r \in MutateSettled : Tasks_switchTaskIsDoneSettles(i, r)
  \/ \E i \in 1..MaxCalls : \E r \in LoadSettled : Tasks_loadTasksSettles(i, r)
  \/ \E i \in 1..MaxCalls : Tasks_createTaskResumes(i)

AppSpec == AppInit /\ [][AppNext]_vars

\* Some unanswered request is answered: its fetch resolves or rejects and the
\* handler that awaits it runs on.
RequestSettles ==
  \E i \in 1..Len(calls) :
    /\ started' = started
    /\ \/ \E r \in LoginSettled : Login_loginSettles(i, r)
       \/ \E r \in LoginSettled : Login_registerSettles(i, r)
       \/ \E r \in MutateSettled :
            \/ Lists_createListSettles(i, r)
            \/ Lists_deleteListSettles(i, r)
            \/ Tasks_createTaskSettles(i, r)
            \/ Tasks_deleteTaskSettles(i, r)
            \/ Tasks_switchTaskIsDoneSettles(i, r)
       \/ \E r \in LoadSettled :
            \/ Lists_loadListsSettles(i, r)
            \/ Lists_loadTasksSettles(i, r)
            \/ Tasks_loadTasksSettles(i, r)

\* A create whose awaited reload has returned runs on: the microtask queue is
\* drained.
HandlerResumes ==
  \E i \in 1..Len(calls) :
    \/ Lists_createListResumes(i)
    \/ Tasks_createTaskResumes(i)

(***************************************************************************)
(* Overlapping operations: the user starts an operation while the request  *)
(* of an earlier one is still unanswered                                   *)
(***************************************************************************)
\* The store with the tasks of list 1 on screen, and the same store once the
\* user has opened the Add Task form and typed a name.
tasksViewed ==
  CHOOSE tree \in dashboardStates :
    /\ tree["login"] = preloadedState["login"]
    /\ Truthy(Get(tree["tasks"], "taskListId"))
taskTyped ==
  dispatchAll(tasksViewed, <<switchShowAddTaskForm(Bool(FALSE)),
                             setCreateTaskName(Str("milk"))>>)

\* One request is unanswered: the dashboard has just mounted over the
\* preloaded store (the /list/list of componentDidMount), or the user, with
\* the tasks of list 1 on screen, has just pressed Delete Task on task 1, or
\* has just pressed Create Task for the name typed.  In Lists the user then
\* works with the form and the rows, in Tasks with the rows.
OverlapInit ==
  /\ createdBy = "App.test"
  /\ lastAction = InitAction
  /\ outcome = "ok"
  /\ dispatches = 0
  /\ ConstructorsIdle
  /\ inputs = [username |-> "", password |-> ""]
  /\ started = 0
  /\ escaped = {}
  /\ ui = [mounted |-> TRUE, lists |-> NoToast, tasks |-> NoToast]
  /\ \/ /\ focus = "Lists"
        /\ state = preloadedState
        /\ calls = <<Invocation("loadLists", "load", <<>>,
                                <<Request("/list/list", Undefined)>>)>>
     \/ /\ focus = "Tasks"
        /\ state = tasksViewed
        /\ calls = <<Invocation("deleteTask", "mutate", <<RecordId(1)>>,
                                <<Request("/task/delete", RecordId(1))>>)>>
     \/ /\ focus = "Tasks"
        /\ state = taskTyped
        /\ calls = <<Invocation("createTask", "mutate", <<>>,
                      <<Request("/task/create",
                                Obj([list_id |-> Get(taskTyped["tasks"], "taskListId"),
                                     name |-> Get(taskTyped["tasks"], "name"),
                                     description |->
                                       Get(taskTyped["tasks"], "description")]))>>)>>

OverlapNext ==
  \/ Lists_openAddListForm
  \/ \E v \in TypedNames : Lists_onChangeName(v)
  \/ Lists_toastTimeout
  \/ Lists_createList
  \/ \E i \in 1..Len(calls) : \E r \in MutateSettled : Lists_createListSettles(i, r)
  \/ \E id \in RecordIds : Lists_deleteList(id)
  \/ \E i \in 1..Len(calls) : \E r \in MutateSettled : Lists_deleteListSettles(i, r)
  \/ \E i \in 1..Len(calls) : \E r \in LoadSettled : Lists_loadListsSettles(i, r)
  \/ \E i \in 1..Len(calls) : Lists_createListResumes(i)
  \/ \E id \in RecordIds : Lists_loadTasks(id)
  \/ \E i \in 1..Len(calls) : \E r \in LoadSettled : Lists_loadTasksSettles(i, r)
  \/ Tasks_toastTimeout
  \/ \E i \in 1..Len(calls) : \E r \in MutateSettled : Tasks_createTaskSettles(i, r)
  \/ \E i \in 1..Len(calls) : Tasks_createTaskResumes(i)
  \/ \E id \in RecordIds : Tasks_deleteTask(id)
  \/ \E i \in 1..Len(calls) : \E r \in MutateSettled : Tasks_deleteTaskSettles(i, r)
  \/ \E id \in RecordIds : Tasks_switchTaskIsDone(id)
  \/ \E i \in 1..Len(calls) : \E r \in MutateSettled : Tasks_switchTaskIsDoneSettles(i, r)
  \/ \E i \in 1..Len(calls) : \E r \in LoadSettled : Tasks_loadTasksSettles(i, r)

OverlapSpec == OverlapInit /\ [][OverlapNext]_vars

\* The same over a backend that answers: a request does not stay unanswered
\* forever.
OverlapLiveSpec ==
  OverlapInit /\ [][OverlapNext]_vars
    /\ WF_vars(RequestSettles) /\ WF_vars(HandlerResumes)

\* Navigation during a reload: with the tasks of list 1 on screen the user has
\* pressed Delete Task, Done or Create Task, and then turns to the lists table
\* and presses View Tasks on a row.
NavigateInit ==
  /\ createdBy = "App.test"
  /\ lastAction = InitAction
  /\ outcome = "ok"
  /\ dispatches = 0
  /\ ConstructorsIdle
  /\ inputs = [username |-> "", password |-> ""]
  /\ started = 0
  /\ escaped = {}
  /\ ui = [mounted |-> TRUE, lists |-> NoToast, tasks |-> NoToast]
  /\ focus = "Lists"
  /\ \/ /\ state = tasksViewed
        /\ \E op \in {<<"deleteTask", "/task/delete">>,
                      <<"switchTaskIsDone", "/task/isdone">>} :
             calls = <<Invocation(op[1], "mutate", <<RecordId(1)>>,
                                  <<Request(op[2], RecordId(1))>>)>>
     \/ /\ state = taskTyped
        /\ calls = <<Invocation("createTask", "mutate", <<>>,
                      <<Request("/task/create",
                                Obj([list_id |-> Get(taskTyped["tasks"], "taskListId"),
                                     name |-> Get(taskTyped["tasks"], "name"),
                                     description |->
                                       Get(taskTyped["tasks"], "description")]))>>)>>

NavigateNext ==
  \/ \E id \in RecordIds : Lists_loadTasks(id)
  \/ \E i \in 1..Len(calls) : \E r \in LoadSettled : Lists_loadTasksSettles(i, r)
  \/ Tasks_toastTimeout
  \/ \E i \in 1..Len(calls) : \E r \in MutateSettled : Tasks_createTaskSettles(i, r)
  \/ \E i \in 1..Len(calls) : \E r \in MutateSettled : Tasks_deleteTaskSettles(i, r)
  \/ \E i \in 1..Len(calls) : \E r \in MutateSettled : Tasks_switchTaskIsDoneSettles(i, r)
  \/ \E i \in 1..Len(calls) : \E r \in LoadSettled : Tasks_loadTasksSettles(i, r)
  \/ \E i \in 1..Len(calls) : Tasks_createTaskResumes(i)

NavigateSpec == NavigateInit /\ [][NavigateNext]_vars

(***************************************************************************)
(* Mounting: what App.render puts on screen over a fresh store             *)
(***************************************************************************)
\* The application is started: over a fresh store (of configureStore, or of
\* the three reducers) nothing is on screen yet; over the store App.test.js
\* preloads with a session token the dashboard is about to mount, or is
\* mounted with its lists loaded.
MountInit ==
  /\ createdBy \in {"configureStore", "App.test"}
  /\ lastAction = InitAction
  /\ outcome = "ok"
  /\ dispatches = 0
  /\ ConstructorsIdle
  /\ inputs = [username |-> "", password |-> ""]
  /\ calls = <<>>
  /\ started = 0
  /\ escaped = {}
  /\ \/ /\ state = createStore(IF createdBy = "configureStore"
                                 THEN configureStoreReducers ELSE appTestReducers)
        /\ ui = [mounted |-> FALSE, lists |-> NoToast, tasks |-> NoToast]
        /\ focus = "App"
     \/ /\ createdBy = "App.test"
        /\ state = preloadedState
        /\ ui = [mounted |-> FALSE, lists |-> NoToast, tasks |-> NoToast]
        /\ focus = "Lists"
     \/ /\ createdBy = "App.test"
        /\ state \in dashboardStates
        /\ ui = [mounted |-> TRUE, lists |-> NoToast, tasks |-> NoToast]
        /\ focus = "Lists"

\* The Login view's handlers are wired by LoginComponent.render, which runs
\* only for an instance that was constructed; the steps below are those of
\* the Lists table and its form.
MountNext ==
  \/ App_renderLogin
  \/ Lists_componentDidMount
  \/ \E i \in 1..Len(calls) : \E r \in LoadSettled : Lists_loadListsSettles(i, r)
  \/ Lists_openAddListForm
  \/ \E v \in TypedNames : Lists_onChangeName(v)
  \/ Lists_createList
  \/ \E i \in 1..Len(calls) : \E r \in MutateSettled : Lists_createListSettles(i, r)
  \/ \E i \in 1..Len(calls) : Lists_createListResumes(i)
  \/ Lists_toastTimeout
  \/ Lists_clearError
  \/ \E id \in RecordIds : Lists_loadTasks(id)
  \/ \E i \in 1..Len(calls) : \E r \in LoadSettled : Lists_loadTasksSettles(i, r)

\* React renders what App.render returns, and the backend answers.
MountLiveSpec ==
  MountInit /\ [][MountNext]_vars
    /\ WF_vars(App_renderLogin) /\ WF_vars(RequestSettles)
    /\ WF_vars(HandlerResumes)

(***************************************************************************)
(* Toasts: showToast and its timers, called as the handlers call it        *)
(***************************************************************************)
MaxToasts == 2

\* The (message, type) pairs the handlers of each component pass to showToast.
Lists_toasts ==
  {<<"Create failed", "error">>, <<"List created", "success">>,
   <<"Delete failed", "error">>, <<"List deleted", "success">>}
Tasks_toasts ==
  {<<"Create failed", "error">>, <<"Task created", "success">>,
   <<"Delete failed", "error">>, <<"Task deleted", "success">>,
   <<"Update failed", "error">>, <<"Task updated", "success">>}

Lists_showToast(message, type) ==
  /\ DashboardShown
  /\ setTimeout(ui.lists)[2] <= MaxToasts
  /\ ui' = [ui EXCEPT !.lists = showToast(@, message, type)]
  /\ UNCHANGED <<storeVars, constructorVars, inputs, calls, started, escaped, focus>>

Tasks_showToast(message, type) ==
  /\ DashboardShown
  /\ setTimeout(ui.tasks)[2] <= MaxToasts
  /\ ui' = [ui EXCEPT !.tasks = showToast(@, message, type)]
  /\ UNCHANGED <<storeVars, constructorVars, inputs, calls, started, escaped, focus>>

ToastInit == AppInit /\ ui.mounted /\ focus = "Lists"

ToastNext ==
  \/ \E t \in Lists_toasts : Lists_showToast(t[1], t[2])
  \/ Lists_toastTimeout
  \/ \E t \in Tasks_toasts : Tasks_showToast(t[1], t[2])
  \/ Tasks_toastTimeout

\* A timeout that is scheduled and not cleared fires once its delay is over.
ToastSpec ==
  /\ ToastInit
  /\ [][ToastNext]_vars
  /\ WF_vars(Lists_toastTimeout)
  /\ WF_vars(Tasks_toastTimeout)

(***************************************************************************)
(* Properties                                                              *)
(***************************************************************************)
\* The slice keys and field names the specification speaks of.
SliceKeys == {"login", "lists", "tasks"}
FieldNames ==
  {"accessId", "username", "password", "list", "showAddList", "name",
   "description", "tasks", "showAddTaskForm", "taskListName", "taskListId",
   "isDone"}

\* The slice defaults as the specification lists them.
ExpectedDefault(k) ==
  CASE k = "login" -> Obj([accessId |-> Undefined])
    [] k = "lists" ->
         Obj([list |-> Arr(<<>>), showAddList |-> Bool(FALSE),
              name |-> Str(""), description |-> Str("")])
    [] k = "tasks" ->
         Obj([tasks |-> Arr(<<>>), showAddTaskForm |-> Bool(FALSE),
              name |-> Str(""), description |-> Str(""),
              taskListName |-> Str(""), taskListId |-> Str("")])

\* The action types each slice is specified to recognize, and the field each writes.
TargetSlice(type) ==
  CASE type \in {"SET_ACCESS_ID", "SET_USERNAME", "SET_PASSWORD", "LOGIN"} -> "login"
    [] type \in {"SET_LISTS", "SWITCH_SHOW_ADD_LIST_FORM", "SET_CREATE_LIST_NAME",
                 "SET_CREATE_LIST_DESCRIPTION"} -> "lists"
    [] type \in {"SET_TASKS", "SET_TASKS_LIST_NAME", "SET_TASKS_LIST_ID",
                 "SWITCH_SHOW_ADD_TASK_FORM", "SWITCH_SET_TASK_IS_DONE",
                 "SET_CREATE_TASK_NAME", "SET_CREATE_TASK_DESCRIPTION"} -> "tasks"
    [] OTHER -> "none"

TargetFields(type) ==
  CASE type = "SET_ACCESS_ID" -> {"accessId"}
    [] type = "SET_USERNAME" -> {"username"}
    [] type = "SET_PASSWORD" -> {"password"}
    [] type = "LOGIN" -> {"accessId", "username"}
    [] type = "SET_LISTS" -> {"list"}
    [] type = "SWITCH_SHOW_ADD_LIST_FORM" -> {"showAddList"}
    [] type \in {"SET_CREATE_LIST_NAME", "SET_CREATE_TASK_NAME"} -> {"name"}
    [] type \in {"SET_CREATE_LIST_DESCRIPTION", "SET_CREATE_TASK_DESCRIPTION"} ->
         {"description"}
    [] type = "SET_TASKS" -> {"tasks"}
    [] type = "SET_TASKS_LIST_NAME" -> {"taskListName"}
    [] type = "SET_TASKS_LIST_ID" -> {"taskListId"}
    [] type = "SWITCH_SHOW_ADD_TASK_FORM" -> {"showAddTaskForm"}
    [] type = "SWITCH_SET_TASK_IS_DONE" -> {"isDone"}
    [] OTHER -> {}

Recognized(type) == TargetSlice(type) # "none"

\* Whether field f of slice k differs between two trees with the same slices.
FieldDiffers(old, new, k, f) ==
  \/ (f \in DOMAIN old[k][2]) # (f \in DOMAIN new[k][2])
  \/ /\ f \in DOMAIN old[k][2]
     /\ f \in DOMAIN new[k][2]
     /\ old[k][2][f] # new[k][2][f]

ChangedFields(old, new) ==
  {kf \in (DOMAIN old) \X FieldNames :
     old[kf[1]] # new[kf[1]] /\ FieldDiffers(old, new, kf[1], kf[2])}

\* The step is a dispatch (and not a stuttering step).
IsDispatchStep == dispatches' = dispatches + 1

\* C1: before any dispatch, the tree of the store configureStore() returns
\* holds the three slices login, lists and tasks at their defaults:
\* login.accessId undefined, lists.list = [], lists.showAddList = false,
\* tasks.tasks = [] and tasks.showAddTaskForm = false.
C1_ConfigureStoreHasAllSlices ==
  (createdBy = "configureStore" /\ dispatches = 0) =>
    /\ DOMAIN state = SliceKeys
    /\ Get(state["login"], "accessId") = Undefined
    /\ Get(state["lists"], "list") = Arr(<<>>)
    /\ Get(state["lists"], "showAddList") = Bool(FALSE)
    /\ Get(state["tasks"], "tasks") = Arr(<<>>)
    /\ Get(state["tasks"], "showAddTaskForm") = Bool(FALSE)

\* C2: in every reachable state the list slice's list and the task slice's
\* tasks are arrays.
C2_CollectionsAreSequences ==
  /\ "lists" \in DOMAIN state => IsArray(Get(state["lists"], "list"))
  /\ "tasks" \in DOMAIN state => IsArray(Get(state["tasks"], "tasks"))

\* A string was sent as SET_TASKS and the task collection is the empty array.
C2_Witness ==
  /\ dispatches = 2
  /\ DOMAIN state = SliceKeys
  /\ lastAction = [type |-> "SET_TASKS", payload |-> Str("alice")]
  /\ Get(state["tasks"], "tasks") = Arr(<<>>)
  /\ Get(state["lists"], "list") = Arr(<<1, 2>>)

\* C3: after SET_LISTS / SET_TASKS the collection equals the payload when the
\* payload is an array, and is empty when it is null, an object or a string.
C3_SetCollection ==
  \A k \in DOMAIN state :
    LET p == lastAction.payload
        field == IF k = "lists" THEN "list" ELSE "tasks"
        type == IF k = "lists" THEN "SET_LISTS" ELSE "SET_TASKS"
    IN (k \in {"lists", "tasks"} /\ lastAction.type = type) =>
         /\ p[1] = "array" => Get(state[k], field) = p
         /\ p[1] \in {"null", "object", "string"} =>
              Get(state[k], field) = Arr(<<>>)

\* SET_TASKS with an object replaced a loaded task collection by [].
C3_Witness ==
  /\ dispatches = 2
  /\ "tasks" \in DOMAIN state
  /\ lastAction.type = "SET_TASKS"
  /\ lastAction.payload \in LoginPayloads
  /\ Get(state["tasks"], "tasks") = Arr(<<>>)
  /\ Get(state["lists"], "list") = Arr(<<2, 1>>)

\* C4: a dispatch whose type a slice's reducer does not recognize leaves that
\* slice as it was, and a type no reducer recognizes is accepted and changes
\* nothing at all.
C4_UnknownIsIdentity ==
  [][IsDispatchStep =>
       /\ \A k \in DOMAIN state :
            TargetSlice(lastAction'.type) # k => state'[k] = state[k]
       /\ ~Recognized(lastAction'.type) => (outcome' = "ok" /\ state' = state)
    ]_vars

\* An unknown type was dispatched on a store whose login slice is not the default.
C4_Witness ==
  /\ dispatches = 2
  /\ lastAction.type = "UNKNOWN_ACTION"
  /\ outcome = "ok"
  /\ DOMAIN state = SliceKeys
  /\ Get(state["login"], "username") = Str("alice")

\* C5: each reducer applied to an undefined state and an unrecognized action
\* yields its slice's default state.
C5_UndefinedStateGivesDefault ==
  dispatches = 0 =>
    /\ \A k \in DOMAIN state : state[k] = ExpectedDefault(k)
    /\ \A a \in Actions \cup {InitAction} :
         a.type \notin Vocabulary =>
           \A k \in SliceKeys : sliceReducer(k, Undefined, a) = ExpectedDefault(k)

\* The store built from the three reducers, before any dispatch.
C5_Witness ==
  /\ dispatches = 0
  /\ DOMAIN state = SliceKeys
  /\ lastAction = InitAction
  /\ Get(state["tasks"], "taskListId") = Str("")

\* C6: a dispatch leaves every field other than the ones its action targets
\* with the value it had, and adds or removes no other field.
C6_OtherFieldsKept ==
  [][IsDispatchStep =>
       \A k \in DOMAIN state :
         \/ state'[k] = state[k]
         \/ \A f \in FieldNames :
              FieldDiffers(state, state', k, f) =>
                /\ k = TargetSlice(lastAction'.type)
                /\ f \in TargetFields(lastAction'.type)
    ]_vars

\* SET_PASSWORD was applied to a login slice that already held a username.
C6_Witness ==
  /\ dispatches = 2
  /\ lastAction = [type |-> "SET_PASSWORD", payload |-> Str("alice")]
  /\ Get(state["login"], "username") = Str("alice")
  /\ Get(state["login"], "password") = Str("alice")

\* C7 as stated: no dispatch of a recognized action changes two or more fields.
C7_ExactlyOneFieldWritten ==
  [][(IsDispatchStep /\ Recognized(lastAction'.type)) =>
       Cardinality(ChangedFields(state, state')) <= 1
    ]_vars

\* C7, amended: every recognized action other than LOGIN_SUCCESS changes at
\* most its one target field; LOGIN_SUCCESS changes accessId and username of
\* the login slice and nothing else.
C7_OneFieldExceptLoginSuccess ==
  [][(IsDispatchStep /\ Recognized(lastAction'.type)) =>
       LET type == lastAction'.type
           changed == ChangedFields(state, state')
       IN /\ changed \subseteq {TargetSlice(type)} \X TargetFields(type)
          /\ Cardinality(TargetFields(type)) = IF type = "LOGIN" THEN 2 ELSE 1
    ]_vars

\* LOGIN_SUCCESS from the default login slice wrote both accessId and username.
C7_Witness ==
  /\ dispatches = 1
  /\ lastAction.type = "LOGIN"
  /\ outcome = "ok"
  /\ Get(state["login"], "accessId") = Str("tok-1")
  /\ Get(state["login"], "username") = Str("alice")

\* C8: LOGIN_SUCCESS with {username: u, accessId: a} sets accessId to a and
\* username to u and keeps the password; from the default slice the result
\* is exactly {accessId: a, username: u}.
C8_LoginSuccess ==
  [][(IsDispatchStep /\ lastAction'.type = "LOGIN"
        /\ lastAction'.payload \in LoginPayloads) =>
       LET p == lastAction'.payload[2]
           old == state["login"]
           new == state'["login"]
       IN /\ outcome' = "ok"
          /\ Get(new, "accessId") = p.accessId
          /\ Get(new, "username") = p.username
          /\ ~FieldDiffers(state, state', "login", "password")
          /\ old = ExpectedDefault("login") =>
               new = Obj([accessId |-> p.accessId, username |-> p.username])
    ]_vars

\* A login succeeded after a password had been entered.
C8_Witness ==
  /\ dispatches = 2
  /\ lastAction = loginSuccess(Str("bob"), Str("tok-2"))
  /\ Get(state["login"], "password") = Str("alice")
  /\ Get(state["login"], "accessId") = Str("tok-2")
  /\ Get(state["login"], "username") = Str("bob")

\* C9: the vocabulary has 15 identifiers with pairwise distinct values
\* (LOGIN_SUCCESS has the value "LOGIN", every other value equals its name),
\* so the type of a dispatched action names at most one identifier.
C9_DistinctIdentifiers ==
  /\ Cardinality({n \in ConstantNames : constants[n] = lastAction.type}) <= 1
  /\ Cardinality(ConstantNames) = 15
  /\ DOMAIN constants = ConstantNames
  /\ \A n, m \in ConstantNames : n # m => constants[n] # constants[m]
  /\ \A n \in ConstantNames :
       constants[n] = IF n = "LOGIN_SUCCESS" THEN "LOGIN" ELSE n

\* An action of type "LOGIN" was dispatched and taken as LOGIN_SUCCESS, and
\* the 15 identifiers give 15 action types.
C9_Witness ==
  /\ dispatches = 1
  /\ lastAction = loginSuccess(Str("alice"), Str("tok-1"))
  /\ {n \in ConstantNames : constants[n] = lastAction.type} = {"LOGIN_SUCCESS"}
  /\ Get(state["login"], "accessId") = Str("tok-1")
  /\ Cardinality(Vocabulary) = 15

\* C10: every dispatch runs all three slice reducers, each on its own slice,
\* and changes at most one slice.
C10_RoutedToAllThreeSlices ==
  [][(IsDispatchStep /\ outcome' = "ok") =>
       /\ \A k \in SliceKeys :
            /\ k \in DOMAIN state'
            /\ state'[k] = sliceReducer(k, state[k], lastAction')
       /\ Cardinality({k \in SliceKeys : state'[k] # state[k]}) <= 1
    ]_vars

\* C11: a dispatched action whose type is in the vocabulary, whatever its
\* payload, makes every slice reducer return a next state: none raises an error.
C11_ReducersAreTotal ==
  lastAction.type \in Vocabulary => outcome = "ok"

\* C12: whatever an exported action constructor is called with, it returns a
\* {type, payload} record whose type is an identifier of the vocabulary; no
\* call returns anything else.
C12_ConstructorsReturnActionRecords ==
  called # NoCall =>
    /\ returned[1] = "object"
    /\ DOMAIN returned[2] = {"type", "payload"}
    /\ returned[2].type[1] = "string"
    /\ returned[2].type[2] \in Vocabulary

\* The login slice's fields, and the collections the components show.
accessId == Props("login", "accessId")
username == Props("login", "username")
password == Props("login", "password")

\* A session token: the non-empty string an authentication response carries.
IsSessionToken(v) == v[1] = "string" /\ v[2] # ""

\* App has rendered: one of its views is on screen, or the construction of
\* the view it returned has failed.
AppRendered == focus # "App" \/ "LoginComponent" \in escaped

\* The Login view is what App.render returns, and App has rendered.
LoginScreenDue == AppRendered /\ AppRender = "Login"

\* C13: once App has rendered, the dashboard/preferences wrapper is on screen
\* only when the login slice holds a session token, and the login view is on
\* screen otherwise; so an access_id of null does not open the dashboard.
C13_DashboardNeedsSessionToken ==
  AppRendered =>
    IF IsSessionToken(accessId)
      THEN focus \in {"Lists", "Tasks"}
      ELSE focus = "Login"

\* C14: no step of the components takes login.accessId from a defined value
\* back to undefined.
C14_AccessIdStaysDefined ==
  [][accessId # Undefined => accessId' # Undefined]_vars

\* The dashboard was open with a token, a list was deleted and the lists were
\* reloaded, and the token is still there.
C14_Witness ==
  /\ accessId = Str("test-123")
  /\ ui.lists.toast = Toast("List deleted", "success")
  /\ Props("lists", "list") = Arr(<<2>>)
  /\ started = 1
  /\ calls = <<>>

MissingToken == accessId \in {Undefined, Null, Str("")}
MissingListId == Props("tasks", "taskListId") \in {Undefined, Null, Str("")}
BlankName(name) == name \in {Undefined, Null, Str(""), Str(" ")}

ListValidationMessage ==
  IF MissingToken THEN "You must be logged in to create a list."
  ELSE IF BlankName(Props("lists", "name")) THEN "List name is required."
  ELSE "none"

TaskValidationMessage ==
  IF MissingToken THEN "You must be logged in to create a task."
  ELSE IF MissingListId THEN "Please select a list before adding a task."
  ELSE IF BlankName(Props("tasks", "name")) THEN "Task name is required."
  ELSE "none"

\* C16: a create whose preconditions fail issues no request, dispatches no
\* action, shows no toast and sets the error banner to the message of the
\* first failing check: session token, then (tasks) list id, then name.
C16_CreateValidation ==
  [][/\ (Lists_createList /\ ListValidationMessage # "none") =>
          /\ ui'.lists = [ui.lists EXCEPT !.lastError = Str(ListValidationMessage)]
          /\ ui'.tasks = ui.tasks
          /\ UNCHANGED <<state, calls, started>>
     /\ (Tasks_createTask /\ TaskValidationMessage # "none") =>
          /\ ui'.tasks = [ui.tasks EXCEPT !.lastError = Str(TaskValidationMessage)]
          /\ ui'.lists = ui.lists
          /\ UNCHANGED <<state, calls, started>>
     /\ (Lists_createList /\ ListValidationMessage = "none") => started' = started + 1
     /\ (Tasks_createTask /\ TaskValidationMessage = "none") => started' = started + 1
    ]_vars

\* Create Task was pressed with a whitespace-only name, a list selected and a
\* token held: the banner asks for the name and nothing was requested.
C16_Witness ==
  /\ ui.tasks.lastError = Str("Task name is required.")
  /\ Props("tasks", "name") = Str(" ")
  /\ Props("tasks", "taskListId") = Num(1)
  /\ accessId = Str("test-123")
  /\ ui.tasks.toast = Null
  /\ started = 0
  /\ calls = <<>>

\* The ways a request can settle, by what the specification makes of them.
Non2xx(settled) == {r \in settled : r.settled = "resolved" /\ ~r.ok}
Transport(settled) == {r \in settled : r.settled = "rejected"}
OkJson(settled) == {r \in settled : r.settled = "resolved" /\ r.ok /\ r.body # NotJson}

\* A create, delete or toggle request of invocation i settles to r.
MutationSettles(i, r) ==
  \/ Lists_createListSettles(i, r)
  \/ Lists_deleteListSettles(i, r)
  \/ Tasks_createTaskSettles(i, r)
  \/ Tasks_deleteTaskSettles(i, r)
  \/ Tasks_switchTaskIsDoneSettles(i, r)

\* A load request of invocation i settles to r.
LoadSettles(i, r) ==
  \/ Lists_loadListsSettles(i, r)
  \/ Lists_loadTasksSettles(i, r)
  \/ Tasks_loadTasksSettles(i, r)

\* Invocation i leaves its mutate step: it ends, or goes on to its reload.
MutationReturns(i) ==
  /\ calls[i].pc = "mutate"
  /\ \/ calls' = Remove(calls, i)
     \/ Len(calls') = Len(calls) /\ calls'[i].pc = "load"

\* Invocation i leaves its load step: a create goes on to its form reset, any
\* other operation is over.
LoadReturns(i) ==
  /\ calls[i].pc = "load"
  /\ calls' = IF calls[i].op \in {"createList", "createTask"}
                THEN [calls EXCEPT ![i].pc = "reset"]
                ELSE Remove(calls, i)

\* The create of invocation i runs on after its awaited reload.
CreateResumes(i) ==
  \/ Lists_createListResumes(i)
  \/ Tasks_createTaskResumes(i)

\* The component and the collection an invocation works on.
ComponentOf(op) ==
  IF op \in {"createTask", "deleteTask", "switchTaskIsDone"} THEN "tasks" ELSE "lists"
CollectionOf(op) ==
  IF op \in {"loadLists", "createList", "deleteList"}
    THEN <<"lists", "list">> ELSE <<"tasks", "tasks">>
SuccessToasts ==
  {Toast(m, "success") : m \in {"List created", "List deleted", "Task created",
                                 "Task deleted", "Task updated"}}
CreateForm(slice) ==
  <<Props(slice, "name"), Props(slice, "description"),
    Props(slice, IF slice = "lists" THEN "showAddList" ELSE "showAddTaskForm")>>

\* C17: a response with a non-2xx status has no success-path effect, whatever
\* its body: an authenticate response dispatches no LOGIN_SUCCESS, a load
\* response does not install its body, and a create, delete or toggle response
\* shows no success toast and starts no reload.
C17_Non2xxHasNoSuccessEffect ==
  [][\A i \in 1..Len(calls) :
       /\ \A r \in Non2xx(LoginSettled) :
            Login_loginSettles(i, r) => state' = state
       /\ \A r \in Non2xx(LoadSettled) :
            LoadSettles(i, r) =>
              \A c \in {CollectionOf(calls[i].op)} : Props(c[1], c[2])' = Arr(<<>>)
       /\ \A r \in Non2xx(MutateSettled) :
            MutationSettles(i, r) =>
              /\ ui'[ComponentOf(calls[i].op)].toast \notin SuccessToasts
              /\ calls' = Remove(calls, i)
    ]_vars

\* C18: a create, delete or toggle request that returns 2xx with a JSON body
\* is followed by exactly one load request of the same invocation, for the
\* lists or for the tasks of the current taskListId; a load that returns 2xx
\* with a sequence replaces the collection by that sequence.
C18_SuccessReloadsOnce ==
  [][\A i \in 1..Len(calls) :
       /\ MutationReturns(i) =>
          \A r \in OkJson(MutateSettled) :
            MutationSettles(i, r) =>
              /\ Len(calls') = Len(calls)
              /\ calls'[i].requests =
                   Append(calls[i].requests,
                          IF ComponentOf(calls[i].op) = "lists"
                            THEN Request("/list/list", Undefined)
                            ELSE Request("/task/list", Props("tasks", "taskListId")))
              /\ Len(calls[i].requests) = 1
       /\ LoadReturns(i) =>
            \A r \in OkJson(LoadSettled) :
              (IsArray(r.body) /\ LoadSettles(i, r)) =>
                 \A c \in {CollectionOf(calls[i].op)} : Props(c[1], c[2])' = r.body
    ]_vars

\* Task 1 was toggled, the request returned 2xx, the tasks of list 1 were
\* requested once and the sequence that came back is the collection.
C18_Witness ==
  /\ ui.tasks.toast = Toast("Task updated", "success")
  /\ Props("tasks", "taskListId") = Num(1)
  /\ Props("tasks", "tasks") = Arr(<<2>>)
  /\ started = 1
  /\ calls = <<>>

\* C19: a create, delete or toggle request that fails, by a non-2xx status or
\* a transport exception, ends the operation: no reload is requested and the
\* create form keeps its name, description and compose-mode flag.
C19_FailedMutationAborts ==
  [][\A i \in 1..Len(calls) :
       \A r \in Non2xx(MutateSettled) \cup Transport(MutateSettled) :
         MutationSettles(i, r) =>
           /\ calls' = Remove(calls, i)
           /\ CreateForm("lists")' = CreateForm("lists")
           /\ CreateForm("tasks")' = CreateForm("tasks")
    ]_vars

\* C20: when a request of one of the seven operations returns non-2xx or is
\* rejected, the handler catches it and a banner text or a toast is set
\* afterwards; nothing propagates out of the handler.
C20_FailuresLeaveAMessage ==
  [][\A i \in 1..Len(calls) :
       /\ \A r \in Non2xx(MutateSettled) \cup Transport(MutateSettled) :
            MutationSettles(i, r) =>
              /\ escaped' = escaped
              /\ \/ ui'[ComponentOf(calls[i].op)].lastError # Null
                 \/ ui'[ComponentOf(calls[i].op)].toast # Null
       /\ \A r \in Non2xx(LoadSettled) \cup Transport(LoadSettled) :
            LoadSettles(i, r) =>
              /\ escaped' = escaped
              /\ \/ ui'[ComponentOf(calls[i].op)].lastError # Null
                 \/ ui'[ComponentOf(calls[i].op)].toast # Null
    ]_vars

\* A create whose create request was answered 2xx and whose reload has
\* returned resets its form: the operation completes on its success path.
CreateCompletes(i) ==
  /\ calls[i].op \in {"createList", "createTask"}
  /\ calls[i].pc = "reset"
  /\ calls[i].resp = "ok"
  /\ CreateResumes(i)

\* C21: when a create-list or create-task operation completes on its success
\* path, the create form's name and description are empty and the
\* compose-mode flag is false, whatever the user typed or pressed while the
\* create and reload requests were awaited.
C21_CreateEndsInBrowseMode ==
  [][\A i \in 1..Len(calls) :
       CreateCompletes(i) =>
         \A slice \in {CollectionOf(calls[i].op)[1]} :
           CreateForm(slice)' = <<Str(""), Str(""), Bool(FALSE)>>]_vars

\* C22: as long as a component's lastError holds a message, the error banner
\* is on screen, in the compose view and in the browse view alike.
C22_ErrorBannerStaysVisible ==
  DashboardShown =>
    /\ ui.lists.lastError # Null => "banner" \in Lists_render
    /\ ui.tasks.lastError # Null => "banner" \in Tasks_render

\* C23: per component at most one toast dismissal is pending, and it is the
\* one scheduled by the latest showToast: every earlier timeout has been
\* cleared, so only the timer of the toast on display can remove it.
C23_OneToastTimerPending ==
  \A c \in {"lists", "tasks"} :
    /\ ui[c].timers \subseteq {ui[c].toastTimer}
    /\ ui[c].toast # Null => ui[c].timers = {ui[c].toastTimer}

\* A second toast is on display and the only pending timeout is its own.
C23_Witness ==
  /\ ui.lists.toast = Toast("Delete failed", "error")
  /\ ui.lists.toastTimer = Num(2)
  /\ ui.lists.timers = {Num(2)}

\* C24: a toast on display is eventually dismissed unless another showToast
\* replaces it, and once dismissed the toast stays null until the next
\* showToast.
C24_ToastEventuallyDismissed ==
  /\ \A c \in {"lists", "tasks"} : \A handle \in 1..MaxToasts :
       (ui[c].toast # Null /\ ui[c].toastTimer = Num(handle))
         ~> (ui[c].toast = Null \/ ui[c].toastTimer # Num(handle))
  /\ [][\A c \in {"lists", "tasks"} :
          (ui[c].toast = Null /\ ui'[c].toast # Null)
            => ui'[c].toastTimer # ui[c].toastTimer]_vars

\* The first toast of Tasks has been displayed and dismissed by its timer.
C24_Witness ==
  /\ ui.tasks.toast = Null
  /\ ui.tasks.toastTimer = Num(1)
  /\ ui.tasks.timers = {}

\* C25: a load answered 2xx with a JSON body that is not a sequence installs
\* the empty sequence and reports nothing: lastError and the toast of both
\* components are left as they were.
C25_MalformedLoadBodyIsSilent ==
  [][\A i \in 1..Len(calls) : \A r \in OkJson(LoadSettled) :
       (~IsArray(r.body) /\ LoadSettles(i, r)) =>
         /\ \A c \in {CollectionOf(calls[i].op)} : Props(c[1], c[2])' = Arr(<<>>)
         /\ ui' = ui]_vars

\* A delete was answered 2xx and its reload brought an object: the list is
\* empty and no error is stored.
C25_Witness ==
  /\ calls = <<>>
  /\ started = 1
  /\ ui.lists.toast = Toast("List deleted", "success")
  /\ ui.lists.lastError = Null
  /\ Props("lists", "list") = Arr(<<>>)

\* The endpoints, and the requests of an invocation that are still unanswered.
MutateUrls ==
  {"/user/login", "/user/register", "/list/create", "/list/delete",
   "/task/create", "/task/delete", "/task/isdone"}
LoadUrls == {"/list/list", "/task/list"}
Mutations == {"createList", "deleteList", "createTask", "deleteTask", "switchTaskIsDone"}
Outstanding(inv) ==
  IF inv.pc = "reset" THEN 0
  ELSE Len(inv.requests) - (IF inv.resp = "none" THEN 0 ELSE 1)

\* C26: within one invocation of a create, delete or toggle the steps are
\* ordered mutate, reload, reset: the reload is requested only once the
\* mutate response is in, at most one request is outstanding at any time,
\* nothing is dispatched in the step that takes in the mutate response, the
\* step that ends the reload installs a collection and leaves the form as it
\* is, and the form is reset in the later step that ends the invocation.
C26_MutateThenReloadThenReset ==
  /\ [](\A i \in 1..Len(calls) :
          calls[i].op \in Mutations =>
            /\ Outstanding(calls[i]) <= 1
            /\ calls[i].requests[1][1] \in MutateUrls
            /\ calls[i].pc = "mutate" =>
                 /\ Outstanding(calls[i]) = 1
                 /\ Len(calls[i].requests) = 1
            /\ calls[i].pc = "load" =>
                 /\ Outstanding(calls[i]) = 1
                 /\ calls[i].resp # "none"
                 /\ Len(calls[i].requests) = 2
                 /\ calls[i].requests[2][1] \in LoadUrls
            /\ calls[i].pc = "reset" =>
                 /\ calls[i].op \in {"createList", "createTask"}
                 /\ calls[i].resp # "none"
                 /\ Len(calls[i].requests) = 2)
  /\ [][\A i \in 1..Len(calls) :
          calls[i].op \in Mutations =>
            /\ MutationReturns(i) => state' = state
            /\ (calls[i].op \in {"createList", "createTask"} /\ LoadReturns(i)) =>
                 \A c \in {CollectionOf(calls[i].op)} :
                   /\ \E r \in LoadSettled :
                        Props(c[1], c[2])' =
                          (IF r.settled = "resolved" /\ r.ok /\ IsArray(r.body)
                             THEN r.body ELSE Arr(<<>>))
                   /\ CreateForm(c[1])' = CreateForm(c[1])
            /\ (calls[i].pc = "reset" /\ calls' = Remove(calls, i)) =>
                 \A c \in {CollectionOf(calls[i].op)} :
                   /\ Props(c[1], c[2])' = Props(c[1], c[2])
                   /\ CreateForm(c[1])'[1] = Str("")
                   /\ CreateForm(c[1])'[2] = Str("")]_vars

\* createTask has received its 2xx response, its reload has returned and the
\* form still holds the name that was typed: the reset is the step to come.
C26_Witness ==
  /\ Len(calls) = 1
  /\ calls[1].op = "createTask"
  /\ calls[1].pc = "reset"
  /\ calls[1].resp = "ok"
  /\ calls[1].requests[2][1] = "/task/list"
  /\ Props("tasks", "name") = Str("milk")

\* C27: an invocation sends at most one request to each endpoint, whatever
\* its requests settle to: at most one to its mutating endpoint, at most one
\* to the load endpoint, and none twice.
C27_NoRequestIsRetried ==
  \A i \in 1..Len(calls) :
    /\ \A url \in MutateUrls \cup LoadUrls :
         Cardinality({k \in 1..Len(calls[i].requests) :
                        calls[i].requests[k][1] = url}) <= 1
    /\ Cardinality({k \in 1..Len(calls[i].requests) :
                      calls[i].requests[k][1] \in MutateUrls}) <= 1
    /\ Cardinality({k \in 1..Len(calls[i].requests) :
                      calls[i].requests[k][1] \in LoadUrls}) <= 1

\* deleteList was answered with a non-2xx status: the delete request was sent
\* once and the reload once.
C27_Witness ==
  /\ Len(calls) = 1
  /\ calls[1].op = "deleteList"
  /\ calls[1].resp = "notOk"
  /\ calls[1].requests = <<Request("/list/delete", RecordId(1)),
                           Request("/list/list", Undefined)>>

\* What a load response makes the collection.
LoadOutcome(r) ==
  IF r.settled = "resolved" /\ r.ok /\ IsArray(r.body) THEN r.body ELSE Arr(<<>>)

\* C28: when operations on one collection overlap, every load response
\* installs its outcome when it arrives, whichever load was requested first,
\* and nothing else changes the collection; so once all requests have
\* resolved the collection is the outcome of the load response received last.
C28_LastReceivedLoadWins ==
  [][/\ \A i \in 1..Len(calls) :
          LoadReturns(i) =>
            \A r \in LoadSettled :
              LoadSettles(i, r) =>
                \A c \in {CollectionOf(calls[i].op)} :
                  Props(c[1], c[2])' = LoadOutcome(r)
     /\ \A c \in {<<"lists", "list">>, <<"tasks", "tasks">>} :
          Props(c[1], c[2])' # Props(c[1], c[2]) =>
            \E i \in 1..Len(calls) :
              /\ calls[i].pc = "load"
              /\ CollectionOf(calls[i].op) = c
              /\ \E r \in LoadSettled : LoadSettles(i, r)]_vars

\* The create started after componentDidMount has been answered and its
\* reload has installed the lists 1 and 2, while the /list/list request of
\* componentDidMount, issued before it, is still unanswered.
C28_Witness ==
  /\ Len(calls) = 1
  /\ calls[1].op = "loadLists"
  /\ started = 1
  /\ ui.lists.toast = Toast("List created", "success")
  /\ Props("lists", "list") = Arr(<<1, 2>>)

\* C29: over a backend that answers every request, every invocation of an
\* operation eventually finishes and leaves no request unanswered.
C29_InvocationsFinish == (calls # <<>>) ~> (calls = <<>>)

\* The pending createTask was answered 2xx, its reload has settled and its form
\* is reset, and the operation the user started meanwhile is over too: no
\* invocation is left.
C29_Witness ==
  /\ calls = <<>>
  /\ started = 1
  /\ focus = "Tasks"
  /\ Props("tasks", "showAddTaskForm") = Bool(FALSE)
  /\ ui.tasks.toast = Toast("Task created", "success")
  /\ Props("tasks", "name") = Str("")

\* The steps that dispatch SWITCH_SHOW_ADD_LIST_FORM / SWITCH_SHOW_ADD_TASK_FORM:
\* the Add button, and the form reset at the end of a create.
DispatchesSwitchList ==
  \/ Lists_openAddListForm
  \/ \E i \in 1..Len(calls) : Lists_createListResumes(i)
DispatchesSwitchTask ==
  \/ Tasks_openAddTaskForm
  \/ \E i \in 1..Len(calls) : Tasks_createTaskResumes(i)

\* C30: showAddList and showAddTaskForm are boolean in every reachable state
\* of the application, and they change only in a step that dispatches their
\* SWITCH action: no other handler, no other response and no timer changes
\* them.
C30_FlagsAreBooleanAndSwitched ==
  /\ []({"lists", "tasks"} \subseteq DOMAIN state =>
          /\ Props("lists", "showAddList") \in {Bool(TRUE), Bool(FALSE)}
          /\ Props("tasks", "showAddTaskForm") \in {Bool(TRUE), Bool(FALSE)})
  /\ [][/\ Props("lists", "showAddList")' # Props("lists", "showAddList")
             => DispatchesSwitchList
        /\ Props("tasks", "showAddTaskForm")' # Props("tasks", "showAddTaskForm")
             => DispatchesSwitchTask]_vars

\* The Add List form is open with a name typed, and no request has been made.
C30_Witness ==
  /\ Props("lists", "showAddList") = Bool(TRUE)
  /\ Props("tasks", "showAddTaskForm") = Bool(FALSE)
  /\ Props("lists", "name") = Str("milk")
  /\ started = 0


\* The tree the store holds after store.dispatch(action) from `tree`: the root
\* reducer's result, or `tree` itself when a slice reducer threw.
Committed(tree, action) ==
  CHOOSE next \in {IF result[2].threw THEN result[1] ELSE result[2].tree :
                     result \in {<<t, combineReducers(DOMAIN t, t, action)>> :
                                   t \in {tree}}} : TRUE

\* Recognized actions with one payload of each kind the reducers tell apart
\* (an array, a string, null), and LOGIN_SUCCESS as loginSuccess builds it.
SetterPayloads == {Arr(<<2, 1>>), Str("alice"), Null}
SetterActions ==
  [type : Vocabulary, payload : SetterPayloads]
    \cup {loginSuccess(Str("alice"), Str("tok-1"))}

\* Dispatches of recognized actions only.
SetterNext == \E action \in SetterActions : Dispatch(action)

SetterSpec == Init /\ [][SetterNext]_vars

\* Recognized actions of one slice.
SliceActions(k) == {a \in SetterActions : TargetSlice(a.type) = k}

\* C31: from every tree the store can hold, two recognized actions of one
\* slice that target different fields give the same tree in either order of
\* dispatch, and a recognized action dispatched twice in a row gives the tree
\* it gives dispatched once.  Stated at each dispatch of such an action a:
\* dispatching a again changes nothing, and for every action b of the slice
\* for other fields, b after a gives what a after b gives.
C31_FieldSettersCommuteAndRepeat ==
  [][IsDispatchStep =>
       \A a \in {lastAction'} :
         /\ Committed(state', a) = state'
         /\ \A b \in SliceActions(TargetSlice(a.type)) :
              TargetFields(a.type) \cap TargetFields(b.type) = {} =>
                \E ba \in {Committed(state, b)} :
                  Committed(state', b) = Committed(ba, a)
    ]_vars

\* SET_TASKS_LIST_ID and then SET_TASKS_LIST_NAME were dispatched, two actions
\* of the tasks slice for different fields; both fields hold their payloads.
C31_Witness ==
  /\ dispatches = 2
  /\ lastAction = [type |-> "SET_TASKS_LIST_NAME", payload |-> Str("alice")]
  /\ outcome = "ok"
  /\ DOMAIN state = SliceKeys
  /\ Get(state["tasks"], "taskListId") = Arr(<<2, 1>>)
  /\ Get(state["tasks"], "taskListName") = Str("alice")


\* The list a task load was requested for: the list_id of its /task/list request.
RequestedList(inv) == inv.requests[Len(inv.requests)][2]

\* C32: whenever no request is outstanding, tasks.tasks is the result of a
\* load issued for the list tasks.taskListId names, also when a View Tasks
\* navigation to another list overlaps the reload of a delete on the list
\* browsed before.  Stated at the step that installs the collection: when the
\* 2xx response of a /task/list request arrives and leaves no request
\* outstanding, the request was made for the list taskListId names.
C32_TasksBelongToBrowsedList ==
  [][\A i \in 1..Len(calls) :
       (/\ LoadReturns(i)
        /\ CollectionOf(calls[i].op) = <<"tasks", "tasks">>
        /\ \A j \in 1..Len(calls') : Outstanding(calls'[j]) = 0) =>
          \A r \in LoadSettled :
            (r.ok /\ IsArray(r.body) /\ LoadSettles(i, r)) =>
              RequestedList(calls[i]) = Props("tasks", "taskListId")'
    ]_vars


\* The banner text a failed load sets: 'Load lists ...' or 'Load tasks ...',
\* '... exception' from the catch block and '... failed' for a non-2xx status.
LoadErrorText(op, r) ==
  Str("Load " \o CollectionOf(op)[1] \o
      (IF InCatch(r) THEN " exception" ELSE " failed"))

\* C33: a load-lists or load-tasks request that fails (non-2xx status, or an
\* exception thrown by fetch or by parsing the body) replaces the collection
\* by the empty sequence, whatever it held, and sets the error banner text of
\* the component that ran the load to 'Load ... failed' or 'Load ...
\* exception'; a failed View Tasks load leaves taskListName and taskListId as
\* they were.
C33_FailedLoadEmptiesCollection ==
  [][\A i \in 1..Len(calls) :
       LoadReturns(i) =>
       \A r \in {x \in LoadSettled : InCatch(x) \/ ~x.ok} :
         LoadSettles(i, r) =>
           /\ \A c \in {CollectionOf(calls[i].op)} : Props(c[1], c[2])' = Arr(<<>>)
           /\ \A e \in {<<ComponentOf(calls[i].op), LoadErrorText(calls[i].op, r)>>} :
                ui'[e[1]].lastError = e[2]
           /\ calls[i].op = "Lists.loadTasks" =>
                /\ Props("tasks", "taskListName")' = Props("tasks", "taskListName")
                /\ Props("tasks", "taskListId")' = Props("tasks", "taskListId")
    ]_vars

\* With the tasks 1 and 2 of list "one" on screen, a View Tasks load failed
\* with a non-2xx status: the tasks are gone, the list identity is kept.
C33_Witness ==
  /\ calls = <<>>
  /\ started = 1
  /\ ui.lists.lastError = Str("Load tasks failed")
  /\ Props("tasks", "tasks") = Arr(<<>>)
  /\ Props("tasks", "taskListName") = RecordName(1)
  /\ Props("tasks", "taskListId") = RecordId(1)


\* The session tokens an authenticate response can carry in access_id.
AccessIds ==
  {Get(b, "access_id") : b \in {x \in LoginBodies : CanRead(x)}} \ {Undefined}

\* C34: authentication is reachable: from the initial unauthenticated state,
\* with the user entering credentials and submitting and the backend
\* answering with a body that has access_id, the store eventually holds that
\* access_id in login.accessId (LOGIN_SUCCESS has been dispatched).
C34_AuthenticationReachable ==
  (AppRender = "Login") ~> (Get(state["login"], "accessId") \in AccessIds)


\* An authenticate response that makes login() dispatch LOGIN_SUCCESS.
LoginSucceeds(r) ==
  /\ r.settled = "resolved"
  /\ r.body # NotJson
  /\ CanRead(r.body)
  /\ Get(r.body, "access_id") # Undefined

=============================================================================
